---- MODULE Spec2Model ----
(***************************************************************************)
(* Model of the rozetka-parser fetch layer and catalog traversal engine.   *)
(*                                                                         *)
(*   SpecReq  : one call of RozetkaAPI._make_request (retry loop)          *)
(*   SpecWalk : one pagination walk of RozetkaAPI (_process_* methods)     *)
(*   Spec     : ApplicationRozetka.collect_product_ids_with_workers        *)
(***************************************************************************)
EXTENDS Integers, Sequences, FiniteSets, TLC

(***************************************************************************)
(* Bounds of the model.                                                    *)
(***************************************************************************)
MaxRetries == 3
MaxPages == 3
MaxId == 2
MaxBrands == 3
MaxWorkers == 2
MaxProducts == 3
MaxBatchSize == 2
MaxFilters == 2
MaxSorts == 2
MaxLetters == 3
MaxCategories == 2

(***************************************************************************)
(* Python values that travel through the fetch layer.  Every value is a    *)
(* record with a kind field so that values of different shape compare.     *)
(***************************************************************************)
Null == [kind |-> "null"]

PyInt(n) == [kind |-> "int", val |-> n]
\* A string is known by whether it is empty and by which of the keys the code
\* looks for ('data', 'goods', 'ids') occur in it as substrings.
PyStr(nonempty, contains) == [kind |-> "str", nonempty |-> nonempty, contains |-> contains]
\* A list is known by its integer elements and its string elements.
PyList(ints, strs) == [kind |-> "list", ints |-> ints, strs |-> strs]
\* A dict is a function from its keys to its values.
PyDict(items) == [kind |-> "dict", items |-> items]
EmptyDict == PyDict(<<>>)
\* a list given element by element
PyItems(seq) == [kind |-> "items", seq |-> seq]

\* bool(v)
Truthy(v) ==
    CASE v.kind = "null" -> FALSE
      [] v.kind = "int"  -> v.val # 0
      [] v.kind = "str"  -> v.nonempty
      [] v.kind = "list" -> v.ints # {} \/ v.strs # {}
      [] v.kind = "dict" -> DOMAIN v.items # {}
      [] v.kind = "items" -> v.seq # <<>>

\* `key in v` raises TypeError unless v is a container
CanIn(v) == v.kind \in {"str", "list", "dict"}

\* `key in v` for a string key
In(key, v) ==
    CASE v.kind = "str"  -> key \in v.contains
      [] v.kind = "list" -> key \in v.strs
      [] v.kind = "dict" -> key \in DOMAIN v.items

\* v[key] for a string key raises TypeError unless v is a dict
CanSubscript(v) == v.kind = "dict"


(***************************************************************************)
(* State.                                                                  *)
(***************************************************************************)
VARIABLES
    max_retries,   \* settings.rozetka.max_retries of the executor
    attempt,       \* loop variable of `for attempt in range(max_retries)`
    req_state,     \* "idle" | "running" | "returned"
    req_result,    \* the value _make_request returned
    log,           \* what the call did so far: delays, requests, sleeps
    walk_kind,     \* which of the four pagination methods is running
    walk,          \* its locals: position, page, total_pages, all_product_ids
    served,        \* the requests the walk issued, with what each returned
    main_pc,       \* where collect_product_ids_with_workers is
    max_workers,   \* its max_workers argument
    brands_data,   \* the brand names search_brands_for_category returned, in order
    remote,        \* what the remote catalog answers for each brand, page by page
    workers,       \* the RozetkaAPI instances create_api_workers built
    futures,       \* the submitted brand tasks, in submission order
    work_queue,    \* the pool's queue of tasks no thread has taken yet
    collected,     \* the futures as_completed has yielded so far
    all_product_ids,  \* the accumulating set of the collecting thread
    completed_count,
    failed_brands, \* the brands whose task's exception was logged
    collect_result, \* what collect_product_ids_with_workers returned
    batch_pc,      \* where process_batches_with_workers is
    product_ids,   \* its product_ids argument
    batch_size,    \* its batch_size argument
    num_workers,   \* its num_workers argument
    product_ids_list,  \* list(product_ids)
    batches,       \* the slices of product_ids_list
    batch_workers, \* the RozetkaAPI instances built for the batch phase
    future_to_batch,   \* the submitted batch tasks, in submission order
    batch_queue,   \* the pool's queue of batch tasks no thread has taken yet
    batch_collected,   \* the batch futures as_completed has yielded so far
    all_parsed_data,   \* the accumulating record list of the collecting thread
    completed,     \* the batches that produced records
    batch_result,  \* what process_batches_with_workers returned
    settings,      \* the configuration values start reads
    start,         \* where start is in a category, and its locals
    filters,       \* the filters argument of get_product_ids_for_brand
    sort_list,     \* its sort_list argument
    default_parse, \* its default_parse argument
    brand,         \* where get_product_ids_for_brand is, and its locals
    sweep          \* where search_brands_for_category is, and its locals

reqVars == <<max_retries, attempt, req_state, req_result, log>>
walkVars == <<walk_kind, walk, served>>
schedVars == <<main_pc, max_workers, brands_data, remote, workers, futures,
               work_queue, collected, all_product_ids, completed_count,
               failed_brands, collect_result>>

batchVars == <<batch_pc, product_ids, batch_size, num_workers, product_ids_list,
               batches, batch_workers, future_to_batch, batch_queue,
               batch_collected, all_parsed_data, completed, batch_result>>

startVars == <<settings, start>>

brandVars == <<filters, sort_list, default_parse, brand>>

vars == <<reqVars, walkVars, schedVars, batchVars, startVars, brandVars, sweep>>

\* the locals of a pagination walk that has not been called
NoWalk == [pc |-> "idle", page |-> 0, total_pages |-> 0, ids |-> {}]

WalkIdle ==
    /\ walk_kind = "none"
    /\ walk = NoWalk
    /\ served = <<>>

\* process_batches_with_workers has not been called
BatchIdle ==
    /\ batch_pc = "idle"
    /\ product_ids = {}
    /\ batch_size = 0
    /\ num_workers = 0
    /\ product_ids_list = <<>>
    /\ batches = <<>>
    /\ batch_workers = <<>>
    /\ future_to_batch = <<>>
    /\ batch_queue = <<>>
    /\ batch_collected = {}
    /\ all_parsed_data = <<>>
    /\ completed = 0
    /\ batch_result = Null

\* the locals of a get_product_ids_for_brand that has not been called
NoBrand ==
    [pc |-> "idle", f |-> 0, filter_id |-> Null, filter_values |-> <<>>, v |-> 0, s |-> 0,
     all_product_ids |-> {}, found_any_filter |-> FALSE, found_ids |-> 0, inner |-> {},
     default_ids |-> {}, walks |-> <<>>, result |-> Null,
     facet_requests |-> 0, walk_sets |-> {}, yielded |-> <<>>,
     last_call |-> [f |-> 0, values |-> 0, ids |-> {}, sets |-> {}]]

BrandIdle ==
    /\ filters = <<>>
    /\ sort_list = <<>>
    /\ default_parse = FALSE
    /\ brand = NoBrand

\* search_brands_for_category has not been called
SweepIdle == sweep = [pc |-> "idle", letter |-> 0, brands_data |-> <<>>, served |-> <<>>]

\* start has not been called
StartIdle ==
    /\ settings = [batch_size |-> 0, max_workers |-> 0, save_data |-> ""]
    /\ start = [pc |-> "idle", categories |-> <<>>, i |-> 0, product_ids |-> {},
                parsed_data |-> Null, reached |-> {}, fetched |-> {}, skipped |-> {},
                caught |-> {}, saves |-> <<>>]

\* collect_product_ids_with_workers has not been called
SchedIdle ==
    /\ main_pc = "idle"
    /\ max_workers = 0
    /\ brands_data = <<>>
    /\ remote = <<>>
    /\ workers = <<>>
    /\ futures = <<>>
    /\ work_queue = <<>>
    /\ collected = {}
    /\ all_product_ids = {}
    /\ completed_count = 0
    /\ failed_brands = {}
    /\ collect_result = Null

(***************************************************************************)
(* RozetkaAPI._make_request: the retry loop.  One action is one iteration  *)
(* of the loop: the pre-request delay, the request, the classification of  *)
(* its outcome and the sleeps that follow it.                              *)
(***************************************************************************)
PenaltyUnit == 5
BackoffBase == 2
JitterTenths == {0, 9}

\* Text bodies of a 200 response whose content type is not JSON
TextPayloads ==
    { PyStr(FALSE, {}), PyStr(TRUE, {}), PyStr(TRUE, {"data"}), PyStr(TRUE, {"data", "goods"}) }

\* Decoded bodies of the requests whose content type is JSON, for the
\* request layer: one value of each Python type json() can produce
JsonSamples ==
    { Null, PyInt(7), PyList({}, {"data"}), EmptyDict,
      PyDict("data" :> Null),
      PyDict("data" :> PyDict("goods" :> PyDict("ids" :> PyList({1}, {}) @@ "total_pages" :> PyInt(1)))) }

Success == {"200json", "200text"}
Transient == {"403", "429", "5xx", "other", "timeout", "connerr", "reqerr", "unexpected"}

DelayEv == [ev |-> "delay"]
GetEv(k, outcome, payload) == [ev |-> "get", attempt |-> k, outcome |-> outcome, payload |-> payload]
\* mutant: the penalty computed from the zero-based index
PenaltyEvZeroBased(k) == [ev |-> "sleep429", secs |-> PenaltyUnit * k]
PenaltyEv(k) == [ev |-> "sleep429", secs |-> PenaltyUnit * (k + 1)]
BackoffEv(k, j) == [ev |-> "backoff", base |-> BackoffBase ^ k, jitter |-> j]

\* mutant: a loop bound that is off by one
InRangeInclusive(k) == k <= max_retries

\* range(max_retries) still has the index k
InRange(k) == k < max_retries

\* mutant: giving up one attempt early
IsLastEarly(k) == k = max_retries - 2

\* attempt == max_retries - 1
IsLast(k) == k = max_retries - 1

\* `return value`
Return(value, evs) ==
    /\ req_state' = "returned"
    /\ req_result' = value
    /\ log' = log \o evs
    /\ UNCHANGED <<max_retries, attempt, walkVars, schedVars, batchVars, startVars, brandVars, sweep>>

\* lines 144-148, then the next iteration of the for loop
BackoffAndLoop(evs) ==
    /\ \E j \in JitterTenths :
         log' = log \o evs \o (IF attempt < max_retries - 1
                               THEN <<BackoffEv(attempt, j)>> ELSE <<>>)
    /\ attempt' = attempt + 1
    /\ UNCHANGED <<max_retries, req_state, req_result, walkVars, schedVars, batchVars, startVars, brandVars, sweep>>

\* a branch that ends `if attempt == max_retries - 1: return None`
ReturnIfLast(evs) ==
    IF IsLast(attempt) THEN Return(Null, evs) ELSE BackoffAndLoop(evs)

Iterating == req_state = "running" /\ InRange(attempt)

\* lines 71-76: 200, JSON content type, the body decodes
Respond200Json ==
    /\ Iterating
    /\ \E p \in JsonSamples :
         Return(p, <<DelayEv, GetEv(attempt, "200json", p)>>)

\* mutant: a body that does not decode ends the call
Respond200BadJsonGivesUp ==
    /\ Iterating
    /\ Return(Null, <<DelayEv, GetEv(attempt, "200badjson", Null)>>)

\* lines 77-81: 200, JSON content type, the body does not decode
Respond200BadJson ==
    /\ Iterating
    /\ LET evs == <<DelayEv, GetEv(attempt, "200badjson", Null)>> IN
         IF IsLast(attempt)
         THEN Return(Null, evs)
         ELSE \* `continue`: the backoff at the end of the loop body is skipped
              /\ log' = log \o evs
              /\ attempt' = attempt + 1
              /\ UNCHANGED <<max_retries, req_state, req_result, walkVars, schedVars, batchVars, startVars, brandVars, sweep>>

\* lines 82-85: 200, any other content type
Respond200Text ==
    /\ Iterating
    /\ \E p \in TextPayloads :
         Return(p, <<DelayEv, GetEv(attempt, "200text", p)>>)

\* mutant: 403 handled as terminal
Respond403GivesUp ==
    /\ Iterating
    /\ Return(Null, <<DelayEv, GetEv(attempt, "403", Null)>>)

\* lines 88-92
Respond403 ==
    /\ Iterating
    /\ ReturnIfLast(<<DelayEv, GetEv(attempt, "403", Null)>>)

\* lines 94-99
Respond429 ==
    /\ Iterating
    /\ ReturnIfLast(<<DelayEv, GetEv(attempt, "429", Null), PenaltyEv(attempt)>>)

\* mutant: 404 handled as a transient failure
Respond404AsTransient ==
    /\ Iterating
    /\ ReturnIfLast(<<DelayEv, GetEv(attempt, "404", Null)>>)

\* lines 101-103
Respond404 ==
    /\ Iterating
    /\ Return(Null, <<DelayEv, GetEv(attempt, "404", Null)>>)

\* lines 105-113
Respond5xx ==
    /\ Iterating
    /\ ReturnIfLast(<<DelayEv, GetEv(attempt, "5xx", Null)>>)

\* lines 114-119
RespondOther ==
    /\ Iterating
    /\ ReturnIfLast(<<DelayEv, GetEv(attempt, "other", Null)>>)

\* lines 121-125
RaiseTimeout ==
    /\ Iterating
    /\ ReturnIfLast(<<DelayEv, GetEv(attempt, "timeout", Null)>>)

\* lines 127-131
RaiseConnectionError ==
    /\ Iterating
    /\ ReturnIfLast(<<DelayEv, GetEv(attempt, "connerr", Null)>>)

\* lines 133-137
RaiseRequestException ==
    /\ Iterating
    /\ ReturnIfLast(<<DelayEv, GetEv(attempt, "reqerr", Null)>>)

\* lines 139-142
RaiseException ==
    /\ Iterating
    /\ ReturnIfLast(<<DelayEv, GetEv(attempt, "unexpected", Null)>>)

\* lines 150-151: the for loop ran out of indices
LoopExhausted ==
    /\ req_state = "running"
    /\ ~InRange(attempt)
    /\ Return(Null, <<>>)

InitReq ==
    /\ max_retries \in 0..MaxRetries
    /\ attempt = 0
    /\ req_state = "running"
    /\ req_result = Null
    /\ log = <<>>
    /\ WalkIdle
    /\ SchedIdle
    /\ BatchIdle
    /\ StartIdle
    /\ BrandIdle
    /\ SweepIdle

NextReq ==
    \/ Respond200Json
    \/ Respond200BadJson
    \/ Respond200Text
    \/ Respond403
    \/ Respond429
    \/ Respond404
    \/ Respond5xx
    \/ RespondOther
    \/ RaiseTimeout
    \/ RaiseConnectionError
    \/ RaiseRequestException
    \/ RaiseException
    \/ LoopExhausted

\* The executor's thread always goes on: every sleep is finite and every
\* request carries a timeout.
SpecReq == InitReq /\ [][NextReq]_vars /\ WF_vars(NextReq)

\* what the call did, request by request
Gets == SelectSeq(log, LAMBDA e : e.ev = "get")
Returned == req_state = "returned"

IsGet(i) == log[i].ev = "get"
\* the log positions of the requests after position i
LaterGets(i) == { j \in (i + 1)..Len(log) : IsGet(j) }
\* the log positions strictly between position i and the next request
\* (or the end of the log when there is none)
UntilNextGet(i) ==
    { m \in (i + 1)..Len(log) : \A j \in LaterGets(i) : m < j }

(***************************************************************************)
(* Claims about _make_request.                                             *)
(***************************************************************************)

\* C5: one call issues at most max_retries HTTP attempts, returns null
\* whenever no attempt got a 200 with a usable body, and always terminates.
C5_AttemptsBounded ==
    /\ Len(Gets) <= max_retries
    /\ (Returned /\ \A i \in 1..Len(Gets) : Gets[i].outcome \notin Success)
          => req_result = Null
C5_BoundedAndTerminates == [](C5_AttemptsBounded) /\ <>Returned
C5_Witness ==
    /\ Returned
    /\ max_retries >= 2
    /\ Len(Gets) = max_retries
    /\ \E i \in 1..Len(Gets) : Gets[i].outcome = "200badjson"
    /\ \E i \in 1..Len(Gets) : Gets[i].outcome = "timeout"
    /\ req_result = Null

\* C6: an attempt that receives 404 is the last thing the call does: it
\* returns null at once, with no further attempt and no sleep after it; a
\* call whose first response is 404 makes exactly one attempt.
C6_NotFoundIsTerminal ==
    /\ \A i \in 1..Len(log) :
         (IsGet(i) /\ log[i].outcome = "404")
            => (i = Len(log) /\ Returned /\ req_result = Null)
    /\ (Len(Gets) >= 1 /\ Gets[1].outcome = "404") => Len(Gets) = 1
C6_Witness ==
    /\ Returned
    /\ max_retries >= 2
    /\ Len(Gets) = 1
    /\ Gets[1].outcome = "404"

\* C7: a call in which every attempt receives 429 makes exactly max_retries
\* attempts and returns null.
C7_Always429 ==
    (Returned /\ \A i \in 1..Len(Gets) : Gets[i].outcome = "429")
       => (Len(Gets) = max_retries /\ req_result = Null)
C7_Witness ==
    /\ Returned
    /\ max_retries >= 2
    /\ Len(Gets) = max_retries
    /\ \A i \in 1..Len(Gets) : Gets[i].outcome = "429"

\* C8: the call returns the payload of the first attempt that gets a 200
\* with a usable body and makes no attempt after it; an attempt that ends in
\* 403, 429, 5xx, another status or a network failure is followed by another
\* attempt exactly when its index is below max_retries - 1.
C8_FirstSuccessOrRetry ==
    \A i \in 1..Len(Gets) :
       /\ Gets[i].attempt = i - 1
       /\ Gets[i].outcome \in Success
            => (i = Len(Gets) /\ Returned /\ req_result = Gets[i].payload)
       /\ (Gets[i].outcome \in Transient /\ Returned)
            => ((i < Len(Gets)) <=> (Gets[i].attempt < max_retries - 1))
C8_Witness ==
    /\ Returned
    /\ Len(Gets) = 3
    /\ Gets[1].outcome = "403"
    /\ Gets[2].outcome = "connerr"
    /\ Gets[3].outcome = "200text"
    /\ req_result = PyStr(TRUE, {})

\* C9: between every two consecutive attempts k and k+1 a backoff sleep of
\* base 2^k takes place, whatever made attempt k retry, and no backoff
\* follows the last attempt.
C9_BackoffBetweenAttempts ==
    \A i \in 1..Len(log) :
       IsGet(i) =>
          IF LaterGets(i) # {}
          THEN \E m \in UntilNextGet(i) :
                  log[m].ev = "backoff" /\ log[m].base = 2 ^ log[i].attempt
          ELSE Returned => \A m \in UntilNextGet(i) : log[m].ev # "backoff"

\* C10: an attempt of index k that receives 429 is followed at once by a
\* sleep of 5 * (k + 1) seconds, separate from the backoff sleep, and unless
\* it was the last attempt the retry loop goes on to attempt k + 1.
C10_RateLimitPenalty ==
    \A i \in 1..Len(log) :
       (IsGet(i) /\ log[i].outcome = "429") =>
          LET k == log[i].attempt IN
          /\ i < Len(log)
          /\ log[i + 1].ev = "sleep429"
          /\ log[i + 1].secs = 5 * (k + 1)
          /\ k < max_retries - 1 =>
                /\ i + 2 <= Len(log)
                /\ log[i + 2].ev = "backoff"
                /\ attempt > k
                /\ Returned => LaterGets(i) # {}
C10_Witness ==
    /\ Returned
    /\ Len(Gets) = 3
    /\ Gets[2].outcome = "429"
    /\ \E i \in 1..Len(log) : log[i].ev = "sleep429" /\ log[i].secs = 10
    /\ Gets[3].outcome = "200json"

\* C11: a 200 response with a JSON content type whose body does not decode
\* takes one attempt of the max_retries budget and is retried; on the final
\* attempt the call ends as a failure (null), with no further attempt.
C11_DecodeFailureRetried ==
    /\ Len(Gets) <= max_retries
    /\ \A i \in 1..Len(Gets) :
          Gets[i].outcome = "200badjson" =>
             /\ Gets[i].attempt = i - 1
             /\ IF Gets[i].attempt < max_retries - 1
                THEN /\ Returned => i < Len(Gets)
                     /\ i = Len(Gets) => attempt = i
                ELSE i = Len(Gets) /\ Returned /\ req_result = Null
C11_Witness ==
    /\ Returned
    /\ max_retries = 2
    /\ Len(Gets) = 2
    /\ Gets[1].outcome = "200badjson"
    /\ Gets[2].outcome = "200badjson"
    /\ req_result = Null

(***************************************************************************)
(* The pagination walk: _process_simple_pagination, _process_with_sort,    *)
(* _process_single_filter and _process_filter_sort_combo.  The four differ *)
(* in the URL they request only.  One action is one call of _make_request  *)
(* with the statements that handle what it returned.                       *)
(***************************************************************************)
Ids == 1..MaxId
IdSets == {{}} \cup {{i} : i \in Ids} \cup {Ids}

WalkKinds == {"simple", "sort", "single_filter", "filter_sort_combo"}

\* the `filters=` part of the URL the walk requests for a page
Url(kind, page) ==
    [page |-> page,
     filter |-> kind \in {"single_filter", "filter_sort_combo"},
     sort |-> kind \in {"sort", "filter_sort_combo"}]

\* a catalog response {data: {goods: g}}
Catalog(g) == PyDict("data" :> PyDict("goods" :> g))
Goods(ids, total_pages) ==
    PyDict("ids" :> PyList(ids, {}) @@ "total_pages" :> PyInt(total_pages))

\* What _make_request can hand to a walk as the first page
FirstPagePayloads ==
    {Null} \cup TextPayloads
    \cup { PyInt(7), PyList({}, {"data"}), EmptyDict,
           PyDict("error" :> Null),
           PyDict("data" :> Null),
           PyDict("data" :> PyStr(TRUE, {"goods"})),
           PyDict("data" :> PyList({}, {})),
           PyDict("data" :> EmptyDict),
           Catalog(Null),
           Catalog(EmptyDict),
           Catalog(PyDict("ids" :> Null @@ "total_pages" :> PyInt(1))),
           Catalog(PyDict("ids" :> PyList({1}, {}) @@ "total_pages" :> Null)) }
    \cup { Catalog(PyDict("ids" :> PyList(s, {}))) : s \in {{1}} }
    \cup { Catalog(PyDict("total_pages" :> PyInt(n))) : n \in {2} }
    \cup { Catalog(Goods(s, n)) : s \in IdSets, n \in 0..MaxPages }

\* and as a later page
NextPagePayloads ==
    { Null, PyStr(TRUE, {}), PyStr(TRUE, {"data"}), EmptyDict,
      PyDict("data" :> Null), PyDict("data" :> EmptyDict),
      Catalog(Null), Catalog(EmptyDict),
      Catalog(PyDict("ids" :> Null)) }
    \cup { Catalog(Goods(s, n)) : s \in IdSets, n \in {MaxPages + 1} }

\* `r and 'data' in r and 'goods' in r['data']`, then `r['data']['goods']`:
\* st is "nodata" when the test is false, "raise" when evaluating it or the
\* subscripts raises, "ok" with the goods value otherwise
PageGoods(r) ==
    IF ~Truthy(r) THEN [st |-> "nodata", goods |-> Null]
    ELSE IF ~CanIn(r) THEN [st |-> "raise", goods |-> Null]
    ELSE IF ~In("data", r) THEN [st |-> "nodata", goods |-> Null]
    ELSE IF ~CanSubscript(r) THEN [st |-> "raise", goods |-> Null]
    ELSE LET d == r.items["data"] IN
         IF ~CanIn(d) THEN [st |-> "raise", goods |-> Null]
         ELSE IF ~In("goods", d) THEN [st |-> "nodata", goods |-> Null]
         ELSE IF ~CanSubscript(d) THEN [st |-> "raise", goods |-> Null]
         ELSE [st |-> "ok", goods |-> d.items["goods"]]

\* `if 'ids' in goods_data: all_product_ids.update(goods_data['ids'])`
AddIds(ids, g) ==
    IF ~CanIn(g) THEN [st |-> "raise", ids |-> ids]
    ELSE IF ~In("ids", g) THEN [st |-> "ok", ids |-> ids]
    ELSE IF ~CanSubscript(g) THEN [st |-> "raise", ids |-> ids]
    ELSE IF g.items["ids"].kind # "list" THEN [st |-> "raise", ids |-> ids]
    ELSE [st |-> "ok", ids |-> ids \cup g.items["ids"].ints]

\* `goods_data.get('total_pages', 1)` as the bound of range(2, total_pages + 1)
TotalPages(g) ==
    IF g.kind # "dict" THEN [st |-> "raise", n |-> 0]
    ELSE LET tp == IF "total_pages" \in DOMAIN g.items
                   THEN g.items["total_pages"] ELSE PyInt(1) IN
         IF tp.kind # "int" THEN [st |-> "raise", n |-> 0]
         ELSE [st |-> "ok", n |-> tp.val]

Raised(w) == [w EXCEPT !.pc = "raised"]

\* range(2, total_pages + 1) still has the page
HasPage(page, total_pages) == page <= total_pages

\* the loop header `for page in range(2, total_pages + 1)`
LoopOrReturn(w) ==
    [w EXCEPT !.pc = IF HasPage(w.page, w.total_pages) THEN "pages" ELSE "returned"]

\* the walk's first request and the statements up to the loop
WalkFirst(r) ==
    LET g == PageGoods(r)
        empty == [pc |-> "returned", page |-> 1, total_pages |-> 0, ids |-> {}]
    IN  IF g.st = "nodata" THEN empty
        ELSE IF g.st = "raise" THEN Raised(empty)
        ELSE LET a == AddIds({}, g.goods)
                 tp == TotalPages(g.goods)
             IN  IF a.st = "raise" \/ tp.st = "raise" THEN Raised(empty)
                 ELSE LoopOrReturn([pc |-> "pages", page |-> 2,
                                    total_pages |-> tp.n, ids |-> a.ids])

\* mutant: a failed later page ends the walk
SkipPageAbort(w) == [w EXCEPT !.pc = "returned"]

\* a failed or shapeless later page: its ids are skipped, the walk goes on
SkipPage(w) == LoopOrReturn([w EXCEPT !.page = w.page + 1])

\* mutant: every page's total_pages replaces the loop bound
WalkPageRereads(w, r) ==
    LET g == PageGoods(r) IN
    IF g.st = "nodata" THEN SkipPage(w)
    ELSE IF g.st = "raise" THEN Raised(w)
    ELSE LET a == AddIds(w.ids, g.goods)
             tp == TotalPages(g.goods)
         IN  IF a.st = "raise" \/ tp.st = "raise" THEN Raised(w)
             ELSE LoopOrReturn([w EXCEPT !.page = w.page + 1, !.ids = a.ids,
                                         !.total_pages = tp.n])

\* one iteration of the loop over the later pages
WalkPage(w, r) ==
    LET g == PageGoods(r) IN
    IF g.st = "nodata" THEN SkipPage(w)
    ELSE IF g.st = "raise" THEN Raised(w)
    ELSE LET a == AddIds(w.ids, g.goods) IN
         IF a.st = "raise" THEN Raised(w)
         ELSE LoopOrReturn([w EXCEPT !.page = w.page + 1, !.ids = a.ids])

FetchFirstPage ==
    /\ walk.pc = "first"
    /\ \E r \in FirstPagePayloads :
         /\ walk' = WalkFirst(r)
         /\ served' = served \o <<[url |-> Url(walk_kind, 1), payload |-> r]>>
    /\ UNCHANGED <<walk_kind, reqVars, schedVars, batchVars, startVars, brandVars, sweep>>

FetchNextPage ==
    /\ walk.pc = "pages"
    /\ \E r \in NextPagePayloads :
         /\ walk' = WalkPage(walk, r)
         /\ served' = served \o <<[url |-> Url(walk_kind, walk.page), payload |-> r]>>
    /\ UNCHANGED <<walk_kind, reqVars, schedVars, batchVars, startVars, brandVars, sweep>>

ReqIdle ==
    /\ max_retries = 0
    /\ attempt = 0
    /\ req_state = "idle"
    /\ req_result = Null
    /\ log = <<>>

InitWalk ==
    /\ walk_kind \in WalkKinds
    /\ walk = [NoWalk EXCEPT !.pc = "first"]
    /\ served = <<>>
    /\ ReqIdle
    /\ SchedIdle
    /\ BatchIdle
    /\ StartIdle
    /\ BrandIdle
    /\ SweepIdle

NextWalk ==
    \/ FetchFirstPage
    \/ FetchNextPage

SpecWalk == InitWalk /\ [][NextWalk]_vars

(***************************************************************************)
(* Claims about the pagination walk.                                       *)
(***************************************************************************)
\* r is {data: {goods: ...}} with data a mapping
HasGoodsShape(r) ==
    /\ r.kind = "dict"
    /\ "data" \in DOMAIN r.items
    /\ r.items["data"].kind = "dict"
    /\ "goods" \in DOMAIN r.items["data"].items
GoodsOf(r) == r.items["data"].items["goods"]
\* r is a page: its goods is a mapping whose ids, if any, is a list
IsPage(r) ==
    /\ HasGoodsShape(r)
    /\ GoodsOf(r).kind = "dict"
    /\ "ids" \in DOMAIN GoodsOf(r).items => GoodsOf(r).items["ids"].kind = "list"
PageIdsOf(r) ==
    IF "ids" \in DOMAIN GoodsOf(r).items THEN GoodsOf(r).items["ids"].ints ELSE {}
\* r is a page that reports a page count of at least one
ReportsTotalPages(r) ==
    /\ IsPage(r)
    /\ "total_pages" \in DOMAIN GoodsOf(r).items
    /\ GoodsOf(r).items["total_pages"].kind = "int"
    /\ GoodsOf(r).items["total_pages"].val >= 1
ReportedPages(r) == GoodsOf(r).items["total_pages"].val

\* C3: when page 1 reports total_pages = N and every later fetch returns
\* null or a page, the walk requests pages 1..N in order, returns exactly
\* after the N-th request, never raises, and its result is the union of the
\* ids of the pages whose fetch succeeded.
C3_WalkFetchesEveryPage ==
    (/\ Len(served) >= 1
     /\ ReportsTotalPages(served[1].payload)
     /\ \A i \in 2..Len(served) :
           served[i].payload = Null \/ IsPage(served[i].payload))
    => /\ Len(served) <= ReportedPages(served[1].payload)
       /\ \A i \in 1..Len(served) : served[i].url = Url(walk_kind, i)
       /\ walk.pc \in {"pages", "returned"}
       /\ walk.pc = "returned" <=> Len(served) = ReportedPages(served[1].payload)
       /\ walk.ids = UNION { PageIdsOf(served[i].payload) :
                               i \in { j \in 1..Len(served) : served[j].payload # Null } }
C3_Witness ==
    /\ walk.pc = "returned"
    /\ Len(served) = 3
    /\ served[1].payload = Catalog(Goods({1}, 3))
    /\ served[2].payload = Null
    /\ served[3].payload = Catalog(Goods({2}, MaxPages + 1))
    /\ walk.ids = {1, 2}

\* C4: a walk whose first fetch returns null or a payload without the
\* data.goods shape returns the empty set and does not raise, whatever the
\* payload is.
C4_ShapelessFirstPageReturnsEmpty ==
    (Len(served) >= 1 /\ ~HasGoodsShape(served[1].payload))
       => (walk.pc = "returned" /\ walk.ids = {} /\ Len(served) = 1)

\* the page count a first page sets: its total_pages, or 1 without one
FirstPageCount(r) ==
    IF "total_pages" \in DOMAIN GoodsOf(r).items
    THEN GoodsOf(r).items["total_pages"].val ELSE 1
\* r is a page whose total_pages, if any, is an integer
IsCountedPage(r) ==
    /\ IsPage(r)
    /\ "total_pages" \in DOMAIN GoodsOf(r).items
          => GoodsOf(r).items["total_pages"].kind = "int"

\* C12: total_pages is read from the first page only; the later pages are
\* requested one at a time in increasing order, and a total_pages carried
\* by a later page never changes how many pages are requested.
C12_TotalPagesFromFirstPage ==
    (Len(served) >= 1 /\ IsCountedPage(served[1].payload))
    => LET n == FirstPageCount(served[1].payload) IN
       /\ walk.total_pages = n
       /\ \A i \in 1..Len(served) : served[i].url.page = i
       /\ Len(served) <= IF n >= 1 THEN n ELSE 1
       /\ walk.pc = "returned" => Len(served) = IF n >= 1 THEN n ELSE 1
C12_Witness ==
    /\ walk.pc = "returned"
    /\ Len(served) = 2
    /\ served[1].payload = Catalog(Goods({1}, 2))
    /\ served[2].payload = Catalog(Goods({2}, MaxPages + 1))

(***************************************************************************)
(* ApplicationRozetka.collect_product_ids_with_workers: the collecting     *)
(* thread discovers the brands, builds the executor instances, submits one *)
(* task per brand to a pool of max_workers threads and merges the results  *)
(* as the tasks complete.  The run is configured without filters, sort     *)
(* orders and default_parse, so that a brand task is one plain pagination  *)
(* walk (get_product_ids_for_brand, lines 259-260).  The remote answers a  *)
(* request by its URL alone.                                               *)
(***************************************************************************)
PySet(ids) == [kind |-> "set", ids |-> ids]

\* What the remote catalog can hold for a brand: the answer to each page
BrandCatalogs ==
    { <<Catalog(Goods(Ids, 1))>>,
      <<Catalog(Goods({1}, 2)), Catalog(Goods({2}, 2))>>,
      <<Catalog(Goods({2}, 2)), Null>>,
      <<Null>>,
      <<PyStr(TRUE, {"data"})>> }

\* the answer of _make_request for a page of a brand
RemotePage(pages, page) == IF page <= Len(pages) THEN pages[page] ELSE Null

NoOutcome == [kind |-> "none"]
Exception == [kind |-> "exception"]

Running == { i \in 1..Len(futures) : futures[i].state = "running" }
Finished == { i \in 1..Len(futures) : futures[i].state = "finished" }

\* lines 108-115: api.search_brands_for_category(category_id)
Discover ==
    /\ main_pc = "discover"
    /\ \E n \in 0..MaxBrands :
         /\ brands_data' = [i \in 1..n |-> i]
         /\ remote' \in [1..n -> BrandCatalogs]
         /\ IF n = 0
            THEN main_pc' = "done" /\ collect_result' = PySet({})
            ELSE main_pc' = "create" /\ UNCHANGED collect_result
    /\ UNCHANGED <<max_workers, workers, futures, work_queue, collected,
                   all_product_ids, completed_count, failed_brands>>
    /\ UNCHANGED <<reqVars, walkVars, batchVars, startVars, brandVars, sweep>>

\* lines 117-120: one RozetkaAPI instance per worker slot
CreateWorkers ==
    /\ main_pc = "create"
    /\ workers' = [i \in 1..max_workers |-> i]
    /\ main_pc' = "submit"
    /\ UNCHANGED <<max_workers, brands_data, remote, futures, work_queue, collected,
                   all_product_ids, completed_count, failed_brands, collect_result>>
    /\ UNCHANGED <<reqVars, walkVars, batchVars, startVars, brandVars, sweep>>

\* workers[i % len(workers)] for the zero-based submission index i
WorkerFor(i) == workers[(i % Len(workers)) + 1]

\* lines 125-129: executor.submit for the next brand
Submit ==
    /\ main_pc = "submit"
    /\ LET n == Len(futures) + 1 IN
         /\ futures' = Append(futures,
                [brand |-> brands_data[n], worker |-> WorkerFor(n - 1),
                 state |-> "pending", walk |-> NoWalk, outcome |-> NoOutcome])
         /\ work_queue' = Append(work_queue, n)
         /\ main_pc' = IF n = Len(brands_data) THEN "collect" ELSE "submit"
    /\ UNCHANGED <<max_workers, brands_data, remote, workers, collected,
                   all_product_ids, completed_count, failed_brands, collect_result>>
    /\ UNCHANGED <<reqVars, walkVars, batchVars, startVars, brandVars, sweep>>

\* a pool thread takes the oldest queued task; the pool has max_workers threads
StartTask ==
    /\ work_queue # <<>>
    /\ Cardinality(Running) < max_workers
    /\ futures' = [futures EXCEPT ![Head(work_queue)].state = "running",
                                  ![Head(work_queue)].walk.pc = "first"]
    /\ work_queue' = Tail(work_queue)
    /\ UNCHANGED <<main_pc, max_workers, brands_data, remote, workers, collected,
                   all_product_ids, completed_count, failed_brands, collect_result>>
    /\ UNCHANGED <<reqVars, walkVars, batchVars, startVars, brandVars, sweep>>

\* mutant: a task that returns merges its set into the shared accumulator itself
TaskMovesMerging(i, w) ==
    /\ futures' = [futures EXCEPT ![i] =
          [@ EXCEPT !.walk = w,
                    !.state = IF w.pc = "pages" THEN "running" ELSE "finished",
                    !.outcome = CASE w.pc = "pages" -> NoOutcome
                                  [] w.pc = "returned" -> PySet(w.ids)
                                  [] w.pc = "raised" -> Exception]]
    /\ all_product_ids' = IF w.pc = "returned" THEN all_product_ids \cup w.ids
                          ELSE all_product_ids
    /\ UNCHANGED <<main_pc, max_workers, brands_data, remote, workers, work_queue,
                   collected, completed_count, failed_brands, collect_result>>
    /\ UNCHANGED <<reqVars, walkVars, batchVars, startVars, brandVars, sweep>>

\* the task's walk moved to w: the task goes on, returns its set or raises
TaskMoves(i, w) ==
    /\ futures' = [futures EXCEPT ![i] =
          [@ EXCEPT !.walk = w,
                    !.state = IF w.pc = "pages" THEN "running" ELSE "finished",
                    !.outcome = CASE w.pc = "pages" -> NoOutcome
                                  [] w.pc = "returned" -> PySet(w.ids)
                                  [] w.pc = "raised" -> Exception]]
    /\ UNCHANGED <<main_pc, max_workers, brands_data, remote, workers, work_queue,
                   collected, all_product_ids, completed_count, failed_brands,
                   collect_result>>
    /\ UNCHANGED <<reqVars, walkVars, batchVars, startVars, brandVars, sweep>>

\* get_product_ids_for_brand on a pool thread: the first page of its walk
TaskFetchFirst ==
    \E i \in Running :
       /\ futures[i].walk.pc = "first"
       /\ TaskMoves(i, WalkFirst(RemotePage(remote[futures[i].brand], 1)))

\* mutant: the walk of a task returns after its first page
TaskFetchNextSkips ==
    \E i \in Running :
       /\ futures[i].walk.pc = "pages"
       /\ TaskMoves(i, [futures[i].walk EXCEPT !.pc = "returned"])

\* and a later page
TaskFetchNext ==
    \E i \in Running :
       /\ futures[i].walk.pc = "pages"
       /\ TaskMoves(i, WalkPage(futures[i].walk,
                                RemotePage(remote[futures[i].brand], futures[i].walk.page)))

\* mutant: the merge replaces the accumulated set
MergeOverwrite(acc, ids) == ids

\* all_product_ids.update(brand_product_ids)
Merge(acc, ids) == acc \cup ids

\* mutant: the first task exception ends the collection
CollectAbortsOnError ==
    /\ main_pc = "collect"
    /\ \E i \in Finished \ collected :
         /\ collected' = collected \cup {i}
         /\ completed_count' = completed_count + 1
         /\ IF futures[i].outcome.kind = "set"
            THEN /\ all_product_ids' = Merge(all_product_ids, futures[i].outcome.ids)
                 /\ UNCHANGED <<failed_brands, main_pc, collect_result>>
            ELSE /\ failed_brands' = failed_brands \cup {futures[i].brand}
                 /\ main_pc' = "done"
                 /\ collect_result' = PySet(all_product_ids)
                 /\ UNCHANGED all_product_ids
    /\ UNCHANGED <<max_workers, brands_data, remote, workers, futures, work_queue>>
    /\ UNCHANGED <<reqVars, walkVars, batchVars, startVars, brandVars, sweep>>

\* lines 133-144: as_completed yields a finished future; its result is merged
\* or its exception logged
Collect ==
    /\ main_pc = "collect"
    /\ \E i \in Finished \ collected :
         /\ collected' = collected \cup {i}
         /\ completed_count' = completed_count + 1
         /\ IF futures[i].outcome.kind = "set"
            THEN /\ all_product_ids' = Merge(all_product_ids, futures[i].outcome.ids)
                 /\ UNCHANGED failed_brands
            ELSE /\ failed_brands' = failed_brands \cup {futures[i].brand}
                 /\ UNCHANGED all_product_ids
    /\ UNCHANGED <<main_pc, max_workers, brands_data, remote, workers, futures,
                   work_queue, collect_result>>
    /\ UNCHANGED <<reqVars, walkVars, batchVars, startVars, brandVars, sweep>>

\* lines 146-147: every future was yielded; the pool is shut down and the
\* accumulated set returned
ReturnIds ==
    /\ main_pc = "collect"
    /\ collected = 1..Len(futures)
    /\ main_pc' = "done"
    /\ collect_result' = PySet(all_product_ids)
    /\ UNCHANGED <<max_workers, brands_data, remote, workers, futures, work_queue,
                   collected, all_product_ids, completed_count, failed_brands>>
    /\ UNCHANGED <<reqVars, walkVars, batchVars, startVars, brandVars, sweep>>

Init ==
    /\ main_pc = "discover"
    /\ max_workers \in 1..MaxWorkers
    /\ brands_data = <<>>
    /\ remote = <<>>
    /\ workers = <<>>
    /\ futures = <<>>
    /\ work_queue = <<>>
    /\ collected = {}
    /\ all_product_ids = {}
    /\ completed_count = 0
    /\ failed_brands = {}
    /\ collect_result = Null
    /\ ReqIdle
    /\ WalkIdle
    /\ BatchIdle
    /\ StartIdle
    /\ BrandIdle
    /\ SweepIdle

Next ==
    \/ Discover
    \/ CreateWorkers
    \/ Submit
    \/ StartTask
    \/ TaskFetchFirst
    \/ TaskFetchNext
    \/ Collect
    \/ ReturnIds

Spec == Init /\ [][Next]_vars

(***************************************************************************)
(* Claims about collect_product_ids_with_workers.                          *)
(***************************************************************************)

\* C1: no two brand tasks that run at the same time use the same RozetkaAPI
\* instance.
C1_NoSharedExecutor ==
    \A i, j \in Running : i # j => futures[i].worker # futures[j].worker

\* a brand processed alone: the walk over the remote's pages for it
RECURSIVE WalkAll(_, _)
WalkAll(w, pages) ==
    IF w.pc = "pages" THEN WalkAll(WalkPage(w, RemotePage(pages, w.page)), pages) ELSE w
AloneIds(pages) ==
    LET w == WalkAll(WalkFirst(RemotePage(pages, 1)), pages) IN
    IF w.pc = "returned" THEN w.ids ELSE {}

\* C2: whatever the interleaving and the order of completion, the set
\* collect_product_ids_with_workers returns is the union of the sets each
\* brand yields when processed alone, a raising task counting as empty.
C2_MergedIsUnionOfBrands ==
    main_pc = "done" =>
       collect_result =
          PySet(UNION { AloneIds(remote[b]) : b \in DOMAIN remote })
C2_Witness ==
    /\ main_pc = "done"
    /\ Len(brands_data) = 3
    /\ max_workers = 2
    /\ failed_brands = {2}
    /\ futures[1].outcome = PySet({1, 2})
    /\ futures[3].outcome = PySet({2})
    /\ collect_result = PySet({1, 2})

\* C13: a brand task that raises is logged and merges nothing; the result of
\* every other brand task is still merged and the collection returns
\* normally with all of them.
C13_TaskFailureIsolated ==
    /\ all_product_ids =
          UNION { futures[i].outcome.ids :
                    i \in { j \in collected : futures[j].outcome.kind = "set" } }
    /\ failed_brands =
          { futures[i].brand : i \in { j \in collected : futures[j].outcome = Exception } }
    /\ (main_pc = "done" /\ brands_data # <<>>) =>
          /\ Len(futures) = Len(brands_data)
          /\ collected = 1..Len(futures)
          /\ collect_result = PySet(all_product_ids)
C13_Witness ==
    /\ main_pc = "done"
    /\ Len(brands_data) = 3
    /\ failed_brands = {1, 2}
    /\ collect_result = PySet({1, 2})

(***************************************************************************)
(* ApplicationRozetka.process_batches_with_workers: the collecting thread  *)
(* turns the identifier set into a list, slices it into batches, builds    *)
(* the executor instances, submits one process_single_batch task per batch *)
(* to a pool of num_workers threads and extends the record list as the     *)
(* tasks complete.                                                         *)
(***************************************************************************)
Min(a, b) == IF a < b THEN a ELSE b

\* list(s): the elements of the set in the order of its hash table.  The orders
\* tried are the rotations of the ascending order.
Orders(s) ==
    LET n == Cardinality(s)
        asc == CHOOSE f \in [1..n -> s] : \A i, j \in 1..n : i < j => f[i] < f[j]
    IN  { [i \in 1..n |-> asc[((i + k - 1) % n) + 1]] : k \in 0..(IF n = 0 THEN 0 ELSE n - 1) }

\* list(range(0, stop, step)) for step > 0
RangeStep(stop, step) ==
    [k \in 1..Cardinality({ i \in 0..(stop - 1) : i % step = 0 }) |-> (k - 1) * step]

\* mutant: the slice takes one element more, so consecutive batches overlap
SliceOverlapping(list, i, j) == SubSeq(list, i + 1, Min(j + 1, Len(list)))

\* list[i:j] for 0 <= i <= j
Slice(list, i, j) == SubSeq(list, i + 1, Min(j, Len(list)))

\* [product_ids_list[i:i + batch_size] for i in range(0, total_products, batch_size)]
Batches(list, size) ==
    LET starts == RangeStep(Len(list), size)
    IN  [k \in DOMAIN starts |-> Slice(list, starts[k], starts[k] + size)]

EmptyStr == PyStr(FALSE, {})

\* what the details API holds for a product
Detail(id) ==
    PyDict("id" :> PyInt(id) @@ "title" :> PyStr(TRUE, {}) @@ "price" :> PyInt(id)
           @@ "href" :> PyStr(TRUE, {}) @@ "sell_status" :> PyStr(TRUE, {}))

\* an entry with a null title and the other fields missing
SparseDetail(id) == PyDict("id" :> PyInt(id) @@ "title" :> Null)

\* what _make_request can return for the details URL of a batch
BatchResponses(batch) ==
    { Null,
      PyStr(TRUE, {"data"}),
      PyDict("error" :> PyInt(1)),
      PyDict("data" :> Null),
      PyDict("data" :> PyItems([k \in 1..Len(batch) |-> Detail(batch[k])])),
      PyDict("data" :> PyItems(<<SparseDetail(batch[1]), PyInt(0)>>)) }

\* d.get(key, default)
Get(d, key, default) == IF key \in DOMAIN d.items THEN d.items[key] ELSE default

\* the record parse_batch_data builds from one entry
ParsedRecord(product_info) ==
    PyDict("title" :> Get(product_info, "title", EmptyStr)
           @@ "price" :> Get(product_info, "price", EmptyStr)
           @@ "url" :> Get(product_info, "href", EmptyStr)
           @@ "sku" :> Get(product_info, "id", EmptyStr)
           @@ "availability" :> Get(product_info, "sell_status", EmptyStr))

RECURSIVE ParseItems(_)
\* the loop of parse_batch_data: entries that are not dicts are skipped
ParseItems(seq) ==
    IF seq = <<>> THEN <<>>
    ELSE IF Head(seq).kind = "dict"
         THEN <<ParsedRecord(Head(seq))>> \o ParseItems(Tail(seq))
         ELSE ParseItems(Tail(seq))

\* RozetkaAPI.parse_batch_data
ParseBatchData(batch_data) ==
    IF ~Truthy(batch_data) \/ batch_data.kind \notin {"list", "items"}
    THEN PyItems(<<>>)
    ELSE IF batch_data.kind = "items" THEN PyItems(ParseItems(batch_data.seq))
         ELSE PyItems(<<>>)

\* RozetkaAPI.get_batch_data, given what _make_request returned
GetBatchData(batch, response_data) ==
    IF batch = <<>> THEN PyItems(<<>>)
    ELSE IF response_data.kind = "dict" /\ In("data", response_data)
         THEN response_data.items["data"]
         ELSE PyItems(<<>>)

\* RozetkaAPI.process_single_batch, given what _make_request returned
ProcessSingleBatch(batch, response_data) ==
    LET batch_raw_data == GetBatchData(batch, response_data)
    IN  IF ~Truthy(batch_raw_data) THEN PyItems(<<>>)
        ELSE LET parsed_data == ParseBatchData(batch_raw_data)
             IN  IF Truthy(parsed_data) THEN parsed_data ELSE PyItems(<<>>)

BatchRunning == { i \in 1..Len(future_to_batch) : future_to_batch[i].state = "running" }
BatchFinished == { i \in 1..Len(future_to_batch) : future_to_batch[i].state = "finished" }

\* lines 167-174: list(product_ids) and the slicing
SplitBatches ==
    /\ batch_pc = "split"
    /\ \E order \in Orders(product_ids) :
         /\ product_ids_list' = order
         /\ batches' = Batches(order, batch_size)
    /\ batch_pc' = "create"
    /\ UNCHANGED <<product_ids, batch_size, num_workers, batch_workers, future_to_batch,
                   batch_queue, batch_collected, all_parsed_data, completed,
                   batch_result>>
    /\ UNCHANGED <<reqVars, walkVars, schedVars, startVars, brandVars, sweep>>

\* lines 177-179: one RozetkaAPI instance per worker slot, the empty record list
CreateBatchWorkers ==
    /\ batch_pc = "create"
    /\ batch_workers' = [i \in 1..num_workers |-> i]
    /\ all_parsed_data' = <<>>
    /\ batch_pc' = IF batches = <<>> THEN "collect" ELSE "submit"
    /\ UNCHANGED <<product_ids, batch_size, num_workers, product_ids_list, batches,
                   future_to_batch, batch_queue, batch_collected, completed,
                   batch_result>>
    /\ UNCHANGED <<reqVars, walkVars, schedVars, startVars, brandVars, sweep>>

\* workers[i % len(workers)] for the zero-based batch index i
BatchWorkerFor(i) == batch_workers[(i % Len(batch_workers)) + 1]

\* lines 184-187: executor.submit for the next batch
SubmitBatch ==
    /\ batch_pc = "submit"
    /\ LET n == Len(future_to_batch) + 1 IN
         /\ future_to_batch' = Append(future_to_batch,
                [batch |-> n, worker |-> BatchWorkerFor(n - 1), state |-> "pending",
                 response |-> NoOutcome, outcome |-> NoOutcome])
         /\ batch_queue' = Append(batch_queue, n)
         /\ batch_pc' = IF n = Len(batches) THEN "collect" ELSE "submit"
    /\ UNCHANGED <<product_ids, batch_size, num_workers, product_ids_list, batches,
                   batch_workers, batch_collected, all_parsed_data, completed,
                   batch_result>>
    /\ UNCHANGED <<reqVars, walkVars, schedVars, startVars, brandVars, sweep>>

\* a pool thread takes the oldest queued batch task; the pool has num_workers threads
StartBatch ==
    /\ batch_queue # <<>>
    /\ Cardinality(BatchRunning) < num_workers
    /\ future_to_batch' = [future_to_batch EXCEPT ![Head(batch_queue)].state = "running"]
    /\ batch_queue' = Tail(batch_queue)
    /\ UNCHANGED <<batch_pc, product_ids, batch_size, num_workers, product_ids_list,
                   batches, batch_workers, batch_collected, all_parsed_data, completed,
                   batch_result>>
    /\ UNCHANGED <<reqVars, walkVars, schedVars, startVars, brandVars, sweep>>

\* process_single_batch on a pool thread: one details request, then the parse
FinishBatch ==
    /\ \E i \in BatchRunning :
         \E r \in BatchResponses(batches[future_to_batch[i].batch]) :
            future_to_batch' = [future_to_batch EXCEPT ![i] =
                [@ EXCEPT !.state = "finished",
                          !.response = r,
                          !.outcome = ProcessSingleBatch(batches[future_to_batch[i].batch], r)]]
    /\ UNCHANGED <<batch_pc, product_ids, batch_size, num_workers, product_ids_list,
                   batches, batch_workers, batch_queue, batch_collected,
                   all_parsed_data, completed, batch_result>>
    /\ UNCHANGED <<reqVars, walkVars, schedVars, startVars, brandVars, sweep>>

\* mutant: a batch without records ends the collection
CollectBatchStopsOnEmpty ==
    /\ batch_pc = "collect"
    /\ \E i \in BatchFinished \ batch_collected :
         /\ batch_collected' = batch_collected \cup {i}
         /\ IF Truthy(future_to_batch[i].outcome)
            THEN /\ all_parsed_data' = all_parsed_data \o future_to_batch[i].outcome.seq
                 /\ completed' = completed + 1
                 /\ UNCHANGED <<batch_pc, batch_result>>
            ELSE /\ batch_pc' = "done"
                 /\ batch_result' = PyItems(all_parsed_data)
                 /\ UNCHANGED <<all_parsed_data, completed>>
    /\ UNCHANGED <<product_ids, batch_size, num_workers, product_ids_list,
                   batches, batch_workers, future_to_batch, batch_queue>>
    /\ UNCHANGED <<reqVars, walkVars, schedVars, startVars, brandVars, sweep>>

\* lines 190-204: as_completed yields a finished future; its records extend the
\* list, an empty result is only logged
CollectBatch ==
    /\ batch_pc = "collect"
    /\ \E i \in BatchFinished \ batch_collected :
         /\ batch_collected' = batch_collected \cup {i}
         /\ IF Truthy(future_to_batch[i].outcome)
            THEN /\ all_parsed_data' = all_parsed_data \o future_to_batch[i].outcome.seq
                 /\ completed' = completed + 1
            ELSE UNCHANGED <<all_parsed_data, completed>>
    /\ UNCHANGED <<batch_pc, product_ids, batch_size, num_workers, product_ids_list,
                   batches, batch_workers, future_to_batch, batch_queue, batch_result>>
    /\ UNCHANGED <<reqVars, walkVars, schedVars, startVars, brandVars, sweep>>

\* line 206: every future was yielded; the pool is shut down and the list returned
ReturnData ==
    /\ batch_pc = "collect"
    /\ batch_collected = 1..Len(future_to_batch)
    /\ batch_pc' = "done"
    /\ batch_result' = PyItems(all_parsed_data)
    /\ UNCHANGED <<product_ids, batch_size, num_workers, product_ids_list, batches,
                   batch_workers, future_to_batch, batch_queue, batch_collected,
                   all_parsed_data, completed>>
    /\ UNCHANGED <<reqVars, walkVars, schedVars, startVars, brandVars, sweep>>

InitBatch ==
    /\ batch_pc = "split"
    /\ product_ids \in { 1..m : m \in 0..MaxProducts }
    /\ batch_size \in 1..MaxBatchSize
    /\ num_workers \in 1..MaxWorkers
    /\ product_ids_list = <<>>
    /\ batches = <<>>
    /\ batch_workers = <<>>
    /\ future_to_batch = <<>>
    /\ batch_queue = <<>>
    /\ batch_collected = {}
    /\ all_parsed_data = <<>>
    /\ completed = 0
    /\ batch_result = Null
    /\ ReqIdle
    /\ WalkIdle
    /\ SchedIdle
    /\ StartIdle
    /\ BrandIdle
    /\ SweepIdle

NextBatch ==
    \/ SplitBatches
    \/ CreateBatchWorkers
    \/ SubmitBatch
    \/ StartBatch
    \/ FinishBatch
    \/ CollectBatch
    \/ ReturnData

SpecBatch == InitBatch /\ [][NextBatch]_vars

\* the positions <<batch, index>> at which an identifier occurs in the batches
PlacesOf(id) ==
    { p \in (DOMAIN batches) \X (1..MaxBatchSize) :
         p[2] <= Len(batches[p[1]]) /\ batches[p[1]][p[2]] = id }

\* the futures that were submitted for batch k
SubmissionsOf(k) == { i \in DOMAIN future_to_batch : future_to_batch[i].batch = k }

\* ceil(m / s) for s > 0
CeilDiv(m, s) == (m + s - 1) \div s

\* C16: for M identifiers and batch size S > 0, process_batches_with_workers builds
\* exactly ceil(M/S) batches, every identifier is in exactly one batch, every batch
\* has S identifiers except possibly the last, and every batch is submitted to the
\* pool exactly once.
C16_BatchPartition ==
    batch_pc \in {"create", "submit", "collect", "done"} =>
        /\ Len(batches) = CeilDiv(Cardinality(product_ids), batch_size)
        /\ \A id \in product_ids : Cardinality(PlacesOf(id)) = 1
        /\ \A k \in DOMAIN batches :
              /\ \A p \in DOMAIN batches[k] : batches[k][p] \in product_ids
              /\ IF k < Len(batches)
                 THEN Len(batches[k]) = batch_size
                 ELSE Len(batches[k]) \in 1..batch_size
        /\ \A k \in DOMAIN batches : Cardinality(SubmissionsOf(k)) <= 1
        /\ batch_pc \in {"collect", "done"} =>
              \A k \in DOMAIN batches : Cardinality(SubmissionsOf(k)) = 1

C16_Witness ==
    /\ batch_pc = "done"
    /\ Cardinality(product_ids) = 3
    /\ batch_size = 2
    /\ Len(batches) = 2
    /\ Len(batches[2]) = 1
    /\ Len(future_to_batch) = 2

\* the fetch failed, returned raw text, or returned JSON without a 'data' member
NoDataResponse(r) == r.kind \in {"null", "str"} \/ (r.kind = "dict" /\ ~In("data", r))

RECURSIVE RecordCount(_)
\* how many records the outcomes of a set of batch futures hold together
RecordCount(fs) ==
    IF fs = {} THEN 0
    ELSE LET i == CHOOSE j \in fs : TRUE
         IN  Len(future_to_batch[i].outcome.seq) + RecordCount(fs \ {i})

\* the records of a sequence, as a set
Records(seq) == { seq[p] : p \in DOMAIN seq }

\* C17: a batch whose details fetch returns null, raw text or JSON without 'data'
\* contributes zero records and raises nothing; the records of every other batch
\* are still appended to the final list and the run goes on to the end.
C17_EmptyBatchContributesNothing ==
    /\ \A i \in BatchFinished :
          /\ future_to_batch[i].outcome.kind = "items"
          /\ NoDataResponse(future_to_batch[i].response) =>
                future_to_batch[i].outcome = PyItems(<<>>)
    /\ Len(all_parsed_data) = RecordCount(batch_collected)
    /\ Records(all_parsed_data) =
          UNION { Records(future_to_batch[i].outcome.seq) : i \in batch_collected }
    /\ batch_pc = "done" =>
          /\ batch_collected = DOMAIN future_to_batch
          /\ Len(future_to_batch) = Len(batches)
          /\ batch_result = PyItems(all_parsed_data)

C17_Witness ==
    /\ batch_pc = "done"
    /\ Len(future_to_batch) = 3
    /\ future_to_batch[1].response = PyStr(TRUE, {"data"})
    /\ future_to_batch[2].response = PyDict("error" :> PyInt(1))
    /\ future_to_batch[3].response.kind = "dict"
    /\ batch_result = PyItems(<<ParsedRecord(Detail(batches[3][1]))>>)

(***************************************************************************)
(* ApplicationRozetka.start: the category URLs of category_to_parse.txt    *)
(* are taken one by one.  For each the name and the id are read from the   *)
(* URL, the identifiers are collected (what collect_product_ids returns is *)
(* a set of any size, or it raises), the batch phase is run on them, and   *)
(* its records are handed to save_results.                                 *)
(***************************************************************************)
\* the arguments start passes to process_batches_with_workers
StartBatchSize == 60
StartNumWorkers == 10

\* a category URL: the segments of its path and whether a '/' ends it
CategoryUrl(path, slash) == [path |-> path, slash |-> slash]

\* the lines category_to_parse.txt can hold
Urls ==
    { CategoryUrl(<<"ua", "monitors", "c80089">>, TRUE),
      CategoryUrl(<<"ua", "monitors", "c80089">>, FALSE),
      CategoryUrl(<<"ua", "monitors", "c0">>, TRUE),
      CategoryUrl(<<"monitors", "c80089">>, TRUE) }

\* int(digits) of the segments that are 'c' followed by digits only
CategoryNumber == "c80089" :> 80089 @@ "c0" :> 0

\* category_name.replace('_', ' ').title()
Title == "monitors" :> "Monitors"

\* re.search(r'/ua/([^/]+)/c(\d+)/', url): the places where the pattern matches
Matches(url) ==
    { k \in DOMAIN url.path :
        /\ url.path[k] = "ua"
        /\ k + 2 <= Len(url.path)
        /\ url.path[k + 2] \in DOMAIN CategoryNumber
        /\ (k + 2 < Len(url.path) \/ url.slash) }

\* category_name_and_id: (name, id), (None, None) when the pattern does not match
CategoryNameAndId(url) ==
    IF Matches(url) = {} THEN [name |-> Null, id |-> Null]
    ELSE LET k == CHOOSE k \in Matches(url) : \A j \in Matches(url) : k <= j
         IN  [name |-> PyStr(TRUE, {Title[url.path[k + 1]]}),
              id |-> PyInt(CategoryNumber[url.path[k + 2]])]

\* the values save_data can hold
SaveDataValues == {"both", "csv", "json", "xml", "CSV"}

\* str.lower()
Lower(s) == IF s = "CSV" THEN "csv" ELSE s

\* save_results writes the CSV file only: what remains of save_results when the
\* second test is dropped
ArtifactsCsvOnly(save_format, data) ==
    IF save_format \in {"csv", "both"} /\ Truthy(data) THEN {"csv"} ELSE {}

\* save_results, lines 240-248, and the writers: the files written for a save
\* format; CSVWriter.write returns without a file when data is empty
Artifacts(save_format, data) ==
    (IF save_format \in {"csv", "both"} /\ Truthy(data) THEN {"csv"} ELSE {})
    \cup (IF save_format \in {"json", "both"} THEN {"json"} ELSE {})

\* start before its first statement
NoStart ==
    [pc |-> "idle", categories |-> <<>>, i |-> 0, product_ids |-> {}, parsed_data |-> Null,
     reached |-> {}, fetched |-> {}, skipped |-> {}, caught |-> {}, saves |-> <<>>]

\* the for statement takes the next category, or start ends after the last;
\* product_ids and parsed_data are assigned again before they are read
NextCategory(s) ==
    [s EXCEPT !.product_ids = {}, !.parsed_data = Null,
              !.i = @ + 1,
              !.pc = IF s.i < Len(s.categories) THEN "category" ELSE "returned"]

\* the for statement ends start on a skipped category: what the loop would be
\* with return in the place of continue
CategoryNameAndIdStepReturns ==
    /\ start.pc = "category"
    /\ LET parsed == CategoryNameAndId(start.categories[start.i])
           here == [start EXCEPT !.reached = @ \cup {start.i}]
       IN  start' = IF ~Truthy(parsed.id)
                    THEN [here EXCEPT !.skipped = @ \cup {start.i}, !.pc = "returned"]
                    ELSE [here EXCEPT !.pc = "collect"]
    /\ UNCHANGED <<settings, reqVars, walkVars, schedVars, batchVars, brandVars, sweep>>

\* lines 290-293: categories = read_txt(...); nothing to do when it is empty
ReadCategories ==
    /\ start.pc = "read"
    /\ start' = [start EXCEPT !.i = 1,
                              !.pc = IF start.categories = <<>> THEN "returned" ELSE "category"]
    /\ UNCHANGED <<settings, reqVars, walkVars, schedVars, batchVars, brandVars, sweep>>

\* lines 295-303: name, category_id = self.category_name_and_id(category_url);
\* without an id the category is logged and skipped
CategoryNameAndIdStep ==
    /\ start.pc = "category"
    /\ LET parsed == CategoryNameAndId(start.categories[start.i])
           here == [start EXCEPT !.reached = @ \cup {start.i}]
       IN  start' = IF ~Truthy(parsed.id)
                    THEN NextCategory([here EXCEPT !.skipped = @ \cup {start.i}])
                    ELSE [here EXCEPT !.pc = "collect"]
    /\ UNCHANGED <<settings, reqVars, walkVars, schedVars, batchVars, brandVars, sweep>>

\* lines 309-314 and 334-335: product_ids = self.collect_product_ids(category_id);
\* an empty set ends start, an exception is logged and the loop goes on
CollectProductIds ==
    /\ start.pc = "collect"
    /\ LET here == [start EXCEPT !.fetched = @ \cup {start.i}]
       IN  \/ \E ids \in { 1..m : m \in 0..MaxProducts } :
                start' = [here EXCEPT !.product_ids = ids,
                                      !.pc = IF ids = {} THEN "returned" ELSE "batches"]
           \/ start' = NextCategory([here EXCEPT !.caught = @ \cup {start.i}])
    /\ UNCHANGED <<settings, reqVars, walkVars, schedVars, batchVars, brandVars, sweep>>

\* lines 319-323: the call of process_batches_with_workers
CallProcessBatches ==
    /\ start.pc = "batches"
    /\ batch_pc = "idle"
    /\ batch_pc' = "split"
    /\ product_ids' = start.product_ids
    /\ batch_size' = StartBatchSize
    /\ num_workers' = StartNumWorkers
    /\ start' = [start EXCEPT !.pc = "in_batches"]
    /\ UNCHANGED <<product_ids_list, batches, batch_workers, future_to_batch,
                   batch_queue, batch_collected, all_parsed_data, completed,
                   batch_result>>
    /\ UNCHANGED <<settings, reqVars, walkVars, schedVars, brandVars, sweep>>

\* lines 319-331: the call returned and its locals are gone; parsed_data goes to
\* save_results (lines 238-251), then the next category is taken
SaveResults ==
    /\ start.pc = "in_batches"
    /\ batch_pc = "done"
    /\ LET save_format == Lower(settings.save_data)
           saved == [category |-> start.i,
                     data |-> Truthy(batch_result),
                     artifacts |-> Artifacts(save_format, batch_result),
                     warning |-> save_format \notin {"csv", "json", "both"}]
       IN  start' = NextCategory([start EXCEPT !.parsed_data = batch_result,
                                               !.saves = Append(@, saved)])
    /\ batch_pc' = "idle"
    /\ product_ids' = {}
    /\ batch_size' = 0
    /\ num_workers' = 0
    /\ product_ids_list' = <<>>
    /\ batches' = <<>>
    /\ batch_workers' = <<>>
    /\ future_to_batch' = <<>>
    /\ batch_queue' = <<>>
    /\ batch_collected' = {}
    /\ all_parsed_data' = <<>>
    /\ completed' = 0
    /\ batch_result' = Null
    /\ UNCHANGED <<settings, reqVars, walkVars, schedVars, brandVars, sweep>>

InitStart ==
    /\ settings \in [batch_size : 1..MaxBatchSize, max_workers : 1..MaxWorkers,
                     save_data : SaveDataValues]
    /\ \E n \in 0..MaxCategories :
         \E categories \in [1..n -> Urls] :
           start = [NoStart EXCEPT !.pc = "read", !.categories = categories]
    /\ ReqIdle
    /\ WalkIdle
    /\ SchedIdle
    /\ BatchIdle
    /\ BrandIdle
    /\ SweepIdle

NextStart ==
    \/ ReadCategories
    \/ CategoryNameAndIdStep
    \/ CollectProductIds
    \/ CallProcessBatches
    \/ SplitBatches
    \/ CreateBatchWorkers
    \/ SubmitBatch
    \/ StartBatch
    \/ FinishBatch
    \/ CollectBatch
    \/ ReturnData
    \/ SaveResults

SpecStart == InitStart /\ [][NextStart]_vars

\* C18: in a run started through start, the batch phase partitions the identifiers
\* with the configured batch_size: whatever value the configuration holds, the
\* chunk size the run uses equals it.
C18_ConfiguredBatchSizeUsed ==
    start.pc \in {"in_batches", "saved"} => batch_size = settings.batch_size

(***************************************************************************)
(* RozetkaAPI.get_product_ids_for_brand with filters, sort orders and      *)
(* default_parse: per requested filter two facet requests (the filter's    *)
(* id, then its values) and one pagination walk per value and sort order;  *)
(* then the default traversal, the fallback, or the plain walk.  A step is *)
(* one facet request or one whole pagination walk over what the remote     *)
(* holds for that URL; `walks` lists the walks called, in order.           *)
(***************************************************************************)
\* the filter titles a configuration can ask for; the remote knows the first
FilterNames == {"Seller", "Series"}

\* a string with the given text
Name(s) == PyStr(TRUE, {s})

\* one value of a facet
FacetValue(n) ==
    PyDict("option_value_name" :> Name(n) @@ "products_quantity" :> PyInt(1)
           @@ "option_value_title" :> Name(n))

\* a catalog response {data: {filters: {options: {seller: {...}}}}}
Facets(option_values) ==
    PyDict("data" :> PyDict("filters" :> PyDict("options" :>
        PyDict("seller" :> PyDict("option_title" :> Name("Seller")
                                  @@ "option_values" :> option_values)))))

\* what _make_request can return for the facet URL of a brand
FacetResponses ==
    { Null,
      PyStr(TRUE, {"data"}),
      PyDict("data" :> EmptyDict),
      Facets(PyItems(<<>>)),
      Facets(PyItems(<<FacetValue("a")>>)),
      Facets(PyItems(<<FacetValue("a"), FacetValue("b")>>)) }

\* lines 364-366 and 385-387: filters['options'] of a response, NoOutcome when
\* a test of the chain fails, Exception when a step of it raises
FilterOptions(response) ==
    IF ~Truthy(response) THEN NoOutcome
    ELSE IF ~CanIn(response) THEN Exception
    ELSE IF ~In("data", response) THEN NoOutcome
    ELSE IF ~CanSubscript(response) THEN Exception
    ELSE LET data == response.items["data"] IN
         IF ~CanIn(data) THEN Exception
         ELSE IF ~In("filters", data) THEN NoOutcome
         ELSE IF ~CanSubscript(data) THEN Exception
         ELSE LET fs == data.items["filters"] IN
              IF ~CanIn(fs) THEN Exception
              ELSE IF ~In("options", fs) THEN NoOutcome
              ELSE IF ~CanSubscript(fs) THEN Exception
              ELSE fs.items["options"]

\* RozetkaAPI._get_filter_id_by_name, given what _make_request returned
GetFilterIdByName(response, filter_name) ==
    LET options == FilterOptions(response) IN
    IF options = Exception THEN Exception
    ELSE IF options = NoOutcome THEN Null
    ELSE IF options.kind # "dict" THEN Exception
    ELSE LET hits == { id \in DOMAIN options.items :
                          /\ options.items[id].kind = "dict"
                          /\ Get(options.items[id], "option_title", Null) = Name(filter_name) }
         IN  IF hits # {} THEN Name(CHOOSE id \in hits : TRUE)
             ELSE IF \E id \in DOMAIN options.items : options.items[id].kind # "dict"
                  THEN Exception
                  ELSE Null

\* RozetkaAPI._get_filter_values, given what _make_request returned
GetFilterValues(response, filter_id) ==
    LET options == FilterOptions(response)
        id == CHOOSE s \in filter_id.contains : TRUE
    IN  IF options = Exception THEN Exception
        ELSE IF options = NoOutcome THEN PyItems(<<>>)
        ELSE IF ~CanIn(options) THEN Exception
        ELSE IF ~In(id, options) THEN PyItems(<<>>)
        ELSE IF ~CanSubscript(options) \/ options.items[id].kind # "dict" THEN Exception
        ELSE Get(options.items[id], "option_values", PyItems(<<>>))

\* the exception leaves get_product_ids_for_brand: nothing in it catches
Raise(b) == [b EXCEPT !.pc = "raised"]

\* mutant: without filters the plain walk runs whatever sort_list holds
BranchIgnoresSortList(b) ==
    IF default_parse \/ (filters # <<>> /\ ~b.found_any_filter)
    THEN [b EXCEPT !.pc = "default", !.s = 1, !.inner = {}]
    ELSE IF filters = <<>>
         THEN [b EXCEPT !.pc = "simple"]
         ELSE [b EXCEPT !.pc = "returned", !.result = PySet(b.all_product_ids)]

\* lines 247-262: after the filter loop
Branch(b) ==
    IF default_parse \/ (filters # <<>> /\ ~b.found_any_filter)
    THEN [b EXCEPT !.pc = "default", !.s = 1, !.inner = {}]
    ELSE IF filters = <<>> /\ sort_list = <<>>
         THEN [b EXCEPT !.pc = "simple"]
         ELSE [b EXCEPT !.pc = "returned", !.result = PySet(b.all_product_ids)]

\* lines 239-245: _process_with_filters_and_sort returned filter_ids (`yielded`
\* keeps, per filter so far, whether the set held an id); the next filter, or
\* the end of the loop
NextFilter(b, filter_ids) ==
    LET got == [b EXCEPT !.yielded = Append(@, filter_ids # {})]
        merged == IF filter_ids # {}
                  THEN [got EXCEPT !.found_any_filter = TRUE,
                                   !.all_product_ids = Merge(@, filter_ids)]
                  ELSE got
    IN  IF b.f < Len(filters)
        THEN [merged EXCEPT !.pc = "find_id", !.f = @ + 1, !.filter_id = Null,
                            !.filter_values = <<>>, !.v = 0, !.s = 0, !.inner = {},
                            !.facet_requests = 0, !.walk_sets = {}]
        ELSE Branch([merged EXCEPT !.filter_id = Null, !.filter_values = <<>>,
                                   !.v = 0, !.s = 0, !.inner = {},
                                   !.facet_requests = 0, !.walk_sets = {}])

\* the final state of a pagination walk over what the remote holds
Walked(pages) == WalkAll(WalkFirst(RemotePage(pages, 1)), pages)

\* lines 404-408: the facet request that looks for the filter's id
FindFilterId ==
    /\ brand.pc = "find_id"
    /\ \E r \in FacetResponses :
         LET filter_id == GetFilterIdByName(r, filters[brand.f])
             requested == [brand EXCEPT !.facet_requests = @ + 1]
         IN
         brand' = IF filter_id = Exception THEN Raise(requested)
                  ELSE IF ~Truthy(filter_id) THEN NextFilter(requested, {})
                  ELSE [requested EXCEPT !.pc = "get_values", !.filter_id = filter_id,
                                         !.found_ids = @ + 1]
    /\ UNCHANGED <<filters, sort_list, default_parse>>
    /\ UNCHANGED <<reqVars, walkVars, schedVars, batchVars, startVars, sweep>>

\* lines 410-414: the facet request that reads the filter's values
FetchFilterValues ==
    /\ brand.pc = "get_values"
    /\ \E r \in FacetResponses :
         LET filter_values == GetFilterValues(r, brand.filter_id)
             requested == [brand EXCEPT !.facet_requests = @ + 1]
         IN
         brand' = IF filter_values = Exception THEN Raise(requested)
                  ELSE IF ~Truthy(filter_values) THEN NextFilter(requested, {})
                  ELSE IF filter_values.kind # "items" THEN Raise(requested)
                  ELSE [requested EXCEPT !.pc = "walks",
                                         !.filter_values = filter_values.seq,
                                         !.v = 1, !.s = 1, !.inner = {}, !.walk_sets = {}]
    /\ UNCHANGED <<filters, sort_list, default_parse>>
    /\ UNCHANGED <<reqVars, walkVars, schedVars, batchVars, startVars, sweep>>

\* lines 418-442: the walk for the current filter value (and sort order)
FilterWalk ==
    /\ brand.pc = "walks"
    /\ LET filter_value == brand.filter_values[brand.v]
           kind == IF sort_list # <<>> THEN "filter_sort_combo" ELSE "single_filter"
           called == [brand EXCEPT !.walks = Append(@,
                         [kind |-> kind, filter |-> brand.f, value |-> brand.v,
                          sort |-> IF sort_list # <<>> THEN sort_list[brand.s] ELSE 0])]
           last_sort == sort_list = <<>> \/ brand.s = Len(sort_list)
       IN
       IF \/ filter_value.kind # "dict"
          \/ {"option_value_name", "products_quantity", "option_value_title"}
                \ DOMAIN filter_value.items # {}
       THEN brand' = Raise(brand)
       ELSE \E pages \in BrandCatalogs :
              LET w == Walked(pages)
                  inner == Merge(brand.inner, w.ids)
                  walked == [called EXCEPT !.inner = inner,
                                           !.walk_sets = @ \cup {w.ids}]
              IN  brand' =
                    IF w.pc = "raised" THEN Raise(called)
                    ELSE IF ~last_sort
                         THEN [walked EXCEPT !.s = @ + 1]
                    ELSE IF brand.v < Len(brand.filter_values)
                         THEN [walked EXCEPT !.v = @ + 1, !.s = 1]
                    ELSE NextFilter([walked EXCEPT !.last_call =
                                        [f |-> brand.f, values |-> Len(brand.filter_values),
                                         ids |-> inner, sets |-> walked.walk_sets]],
                                    inner)
    /\ UNCHANGED <<filters, sort_list, default_parse>>
    /\ UNCHANGED <<reqVars, walkVars, schedVars, batchVars, startVars, sweep>>

\* lines 247-257 and 531-548: _process_default_parsing, one walk per sort order
\* or one plain walk, then the update of the brand's set
DefaultWalk ==
    /\ brand.pc = "default"
    /\ LET called == [brand EXCEPT !.walks = Append(@,
                         [kind |-> IF sort_list # <<>> THEN "sort" ELSE "simple",
                          filter |-> 0, value |-> 0,
                          sort |-> IF sort_list # <<>> THEN sort_list[brand.s] ELSE 0])]
       IN
       \E pages \in BrandCatalogs :
          LET w == Walked(pages)
              inner == IF sort_list # <<>> THEN Merge(brand.inner, w.ids) ELSE w.ids
          IN  brand' =
                IF w.pc = "raised" THEN Raise(called)
                ELSE IF sort_list # <<>> /\ brand.s < Len(sort_list)
                     THEN [called EXCEPT !.inner = inner, !.s = @ + 1]
                     ELSE [called EXCEPT !.inner = inner,
                                         !.default_ids = inner,
                                         !.all_product_ids = Merge(@, inner),
                                         !.pc = "returned",
                                         !.result = PySet(Merge(brand.all_product_ids, inner))]
    /\ UNCHANGED <<filters, sort_list, default_parse>>
    /\ UNCHANGED <<reqVars, walkVars, schedVars, batchVars, startVars, sweep>>

\* lines 259-260: no filters, no sort orders, no default_parse: the plain walk's
\* set becomes the brand's set
SimplePagination ==
    /\ brand.pc = "simple"
    /\ \E pages \in BrandCatalogs :
          LET w == Walked(pages)
              called == [brand EXCEPT !.walks = Append(@,
                            [kind |-> "simple", filter |-> 0, value |-> 0, sort |-> 0])]
          IN  brand' =
                IF w.pc = "raised" THEN Raise(called)
                ELSE [called EXCEPT !.all_product_ids = w.ids,
                                    !.pc = "returned",
                                    !.result = PySet(w.ids)]
    /\ UNCHANGED <<filters, sort_list, default_parse>>
    /\ UNCHANGED <<reqVars, walkVars, schedVars, batchVars, startVars, sweep>>

\* lines 235-247: the call starts the filter loop, or goes to the branches at
\* once when no filters were requested
EnterBrand ==
    /\ brand.pc = "enter"
    /\ brand' = IF filters # <<>>
                THEN [brand EXCEPT !.pc = "find_id", !.f = 1]
                ELSE Branch(brand)
    /\ UNCHANGED <<filters, sort_list, default_parse>>
    /\ UNCHANGED <<reqVars, walkVars, schedVars, batchVars, startVars, sweep>>

InitBrand ==
    /\ filters \in UNION { [1..n -> FilterNames] : n \in 0..MaxFilters }
    /\ sort_list \in { [i \in 1..n |-> i] : n \in 0..MaxSorts }
    /\ default_parse \in BOOLEAN
    /\ brand = [NoBrand EXCEPT !.pc = "enter"]
    /\ ReqIdle
    /\ WalkIdle
    /\ SchedIdle
    /\ BatchIdle
    /\ StartIdle
    /\ SweepIdle

NextBrand ==
    \/ EnterBrand
    \/ FindFilterId
    \/ FetchFilterValues
    \/ FilterWalk
    \/ DefaultWalk
    \/ SimplePagination

SpecBrand == InitBrand /\ [][NextBrand]_vars

\* the walks of the default traversal that were called, in order
DefaultWalksCalled == SelectSeq(brand.walks, LAMBDA e : e.kind \in {"sort", "simple"})

\* the walks for filter values that were called, in order
FilterWalksCalled ==
    SelectSeq(brand.walks, LAMBDA e : e.kind \in {"single_filter", "filter_sort_combo"})

\* the default traversal run once: a walk per sort order, or one plain walk
OneDefaultTraversal ==
    IF sort_list # <<>>
    THEN [i \in 1..Len(sort_list) |->
             [kind |-> "sort", filter |-> 0, value |-> 0, sort |-> sort_list[i]]]
    ELSE <<[kind |-> "simple", filter |-> 0, value |-> 0, sort |-> 0]>>

\* get_product_ids_for_brand is over
BrandEnded == brand.pc \in {"returned", "raised"}

\* C19: with default_parse enabled get_product_ids_for_brand always runs the
\* default traversal (one walk per sort order, else one plain walk) and unions
\* its ids into the brand's result, whatever the filter traversals did.
C19_DefaultTraversalAlwaysRuns ==
    (default_parse /\ BrandEnded) =>
        /\ DefaultWalksCalled = OneDefaultTraversal
        /\ brand.result # Null
        /\ brand.default_ids \subseteq brand.result.ids

\* C20: with filters requested, none of them matched for the brand and
\* default_parse disabled, get_product_ids_for_brand runs no walk for a filter
\* value and runs the default traversal exactly once.
C20_FallbackRunsOnce ==
    (filters # <<>> /\ ~default_parse /\ brand.found_ids = 0 /\ BrandEnded) =>
        /\ FilterWalksCalled = <<>>
        /\ DefaultWalksCalled = OneDefaultTraversal

(***************************************************************************)
(* The calls that accumulate results, side by side: a behaviour is a call  *)
(* of collect_product_ids_with_workers, of process_batches_with_workers or *)
(* of get_product_ids_for_brand.                                           *)
(***************************************************************************)
InitPhases == Init \/ InitBatch \/ InitBrand

NextPhases == Next \/ NextBatch \/ NextBrand

SpecPhases == InitPhases /\ [][NextPhases]_vars

\* C15: the accumulating set (identifier phase) and list (batch phase) are never
\* written by a worker task: a task's step changes only its own future, and every
\* change of an accumulator is the collecting thread merging the result of one
\* finished, not yet collected task.
C15_OnlyCollectorMerges ==
    [][ /\ all_product_ids' # all_product_ids =>
              /\ main_pc = "collect"
              /\ futures' = futures
              /\ \E i \in Finished \ collected :
                    /\ collected' = collected \cup {i}
                    /\ futures[i].outcome.kind = "set"
                    /\ all_product_ids' = all_product_ids \cup futures[i].outcome.ids
        /\ all_parsed_data' # all_parsed_data =>
              /\ batch_pc = "collect"
              /\ future_to_batch' = future_to_batch
              /\ \E i \in BatchFinished \ batch_collected :
                    /\ batch_collected' = batch_collected \cup {i}
                    /\ all_parsed_data' = all_parsed_data \o future_to_batch[i].outcome.seq
        /\ futures' # futures =>
              /\ all_product_ids' = all_product_ids
              /\ collected' = collected
        /\ future_to_batch' # future_to_batch =>
              /\ all_parsed_data' = all_parsed_data
              /\ batch_collected' = batch_collected
      ]_vars

C15_Witness ==
    /\ main_pc = "collect"
    /\ Cardinality(collected) = 2
    /\ all_product_ids = {1, 2}
    /\ Running # {}

\* C14: the accumulated product-id set never shrinks: in every step of
\* collect_product_ids_with_workers and of get_product_ids_for_brand the new value
\* of the accumulating set is a superset of the previous one.
C14_AccumulatorNeverShrinks ==
    [][ /\ all_product_ids \subseteq all_product_ids'
        /\ brand.all_product_ids \subseteq brand'.all_product_ids ]_vars

C14_Witness ==
    /\ brand.pc = "returned"
    /\ default_parse
    /\ brand.found_any_filter
    /\ Len(brand.walks) >= 3
    /\ brand.all_product_ids = Ids

\* C29: with sort orders but neither filters nor default_parse,
\* get_product_ids_for_brand runs no traversal branch: it calls no walk, issues
\* no request and returns the empty set.
C29_SortOnlyRunsNothing ==
    (sort_list # <<>> /\ filters = <<>> /\ ~default_parse
        /\ brand.pc \notin {"idle", "enter"}) =>
        /\ brand.pc = "returned"
        /\ brand.walks = <<>>
        /\ brand.facet_requests = 0
        /\ brand.result = PySet({})

C29_Witness ==
    /\ Len(sort_list) = 2
    /\ filters = <<>>
    /\ ~default_parse
    /\ brand.pc = "returned"
    /\ brand.result = PySet({})

\* the fields of a parsed record
RecordFields == {"title", "price", "url", "sku", "availability"}

\* C27: parse_batch_data gives every raw item a record with exactly the fields
\* title, price, url, sku and availability, and no field of a record is null.
C27_NoNullField ==
    \A i \in BatchFinished :
       \A rec \in Records(future_to_batch[i].outcome.seq) :
          /\ DOMAIN rec.items = RecordFields
          /\ \A k \in RecordFields : rec.items[k] # Null

\* the walks called for the f-th requested filter, in order
WalksOfFilter(f) == SelectSeq(brand.walks, LAMBDA e : e.filter = f)

\* one walk per value, or per value and sort order, for n values of filter f
OneWalkPerValue(f, n) ==
    IF sort_list = <<>>
    THEN [k \in 1..n |-> [kind |-> "single_filter", filter |-> f, value |-> k, sort |-> 0]]
    ELSE [k \in 1..(n * Len(sort_list)) |->
             [kind |-> "filter_sort_combo", filter |-> f,
              value |-> ((k - 1) \div Len(sort_list)) + 1,
              sort |-> sort_list[((k - 1) % Len(sort_list)) + 1]]]

\* C21: when a requested filter is found for the brand with values V,
\* _process_with_filters_and_sort runs exactly one walk per value (no sort
\* orders) or per value and sort order, and returns the union of the ids of
\* these walks.
C21_OneWalkPerValueAndSort ==
    /\ ~(brand.pc = "raised" /\ brand.filter_values # <<>>)
    /\ brand.last_call.f # 0 =>
          /\ WalksOfFilter(brand.last_call.f)
                = OneWalkPerValue(brand.last_call.f, brand.last_call.values)
          /\ brand.last_call.ids = UNION brand.last_call.sets

\* C23: finding a requested filter by its title and reading its values costs a
\* single facet request for the brand.
C23_OneFacetRequest ==
    brand.pc = "walks" => brand.facet_requests = 1

\* the ids of the pages the remote holds for a brand: page 1 and the pages up to
\* the count page 1 reports, a missing or shapeless page holding none
BrandPageIds(pages) ==
    LET first == RemotePage(pages, 1)
        n == IF ReportsTotalPages(first) THEN ReportedPages(first) ELSE 1
    IN  IF ~IsPage(first) THEN {}
        ELSE UNION { IF IsPage(RemotePage(pages, p))
                     THEN PageIdsOf(RemotePage(pages, p)) ELSE {} : p \in 1..n }

BrandOption(name, quantity) ==
    PyDict("option_value_name" :> Name(name) @@ "products_quantity" :> PyInt(quantity))

\* a response {data: {options: [...]}}
Options(seq) == PyDict("data" :> PyDict("options" :> PyItems(seq)))

\* what _make_request can return for a letter
LetterResponses ==
    { Null,
      PyStr(TRUE, {"data"}),
      PyDict("data" :> Null),
      PyDict("data" :> EmptyDict),
      Options(<<BrandOption("a", 1)>>),
      Options(<<BrandOption("a", 2), BrandOption("b", 1), PyDict("order" :> PyInt(1))>>) }

\* line 202 and 203: response['data']['options'], NoOutcome when the test is
\* false, Exception when evaluating it raises
BrandOptions(response) ==
    IF ~Truthy(response) THEN NoOutcome
    ELSE IF ~CanIn(response) THEN Exception
    ELSE IF ~In("data", response) THEN NoOutcome
    ELSE IF ~CanSubscript(response) THEN Exception
    ELSE LET data == response.items["data"] IN
         IF ~CanIn(data) THEN Exception
         ELSE IF ~In("options", data) THEN NoOutcome
         ELSE IF ~CanSubscript(data) THEN Exception
         ELSE data.items["options"]

\* lines 206-215: the entry stored for a brand
BrandEntry(option) ==
    PyDict("option_value_name" :> Get(option, "option_value_name", Null)
           @@ "option_value_title" :> Get(option, "option_value_title", EmptyStr)
           @@ "products_quantity" :> Get(option, "products_quantity", PyInt(0))
           @@ "option_value_id" :> Get(option, "option_value_id", Null)
           @@ "is_chosen" :> Get(option, "is_chosen", [kind |-> "bool", val |-> FALSE])
           @@ "order" :> Get(option, "order", PyInt(0))
           @@ "is_value_show" :> Get(option, "is_value_show", [kind |-> "bool", val |-> FALSE])
           @@ "option_value_image" :> Get(option, "option_value_image", Null))

RECURSIVE MergeOptions(_, _)
\* lines 203-215: the loop over the options of one response, all of them dicts
MergeOptions(brands, options) ==
    IF options = <<>> THEN brands
    ELSE LET brand_name == Get(Head(options), "option_value_name", Null)
             known == \E i \in DOMAIN brands : brands[i].items["option_value_name"] = brand_name
         IN  MergeOptions(IF Truthy(brand_name) /\ ~known
                          THEN Append(brands, BrandEntry(Head(options)))
                          ELSE brands,
                          Tail(options))

\* lines 197-215: the request for the next letter and the merge of its options;
\* after the last letter brands_data is returned
SweepLetter ==
    /\ sweep.pc = "sweep"
    /\ \E r \in LetterResponses :
         LET options == BrandOptions(r)
             asked == [sweep EXCEPT !.served = Append(@, [letter |-> sweep.letter, payload |-> r])]
             \* the test, the iteration or option.get raises
             raises == /\ options # NoOutcome
                       /\ \/ options = Exception
                          \/ options.kind # "items"
                          \/ \E k \in DOMAIN options.seq : options.seq[k].kind # "dict"
             merged == IF options = NoOutcome THEN sweep.brands_data
                       ELSE MergeOptions(sweep.brands_data, options.seq)
         IN  sweep' = IF raises THEN [asked EXCEPT !.pc = "raised"]
                      ELSE [asked EXCEPT !.brands_data = merged,
                                         !.letter = @ + 1,
                                         !.pc = IF sweep.letter = MaxLetters
                                                THEN "returned" ELSE "sweep"]
    /\ UNCHANGED <<reqVars, walkVars, schedVars, batchVars, startVars, brandVars>>

InitSweep ==
    /\ sweep = [pc |-> "sweep", letter |-> 1, brands_data |-> <<>>, served |-> <<>>]
    /\ ReqIdle
    /\ WalkIdle
    /\ SchedIdle
    /\ BatchIdle
    /\ StartIdle
    /\ BrandIdle

NextSweep == SweepLetter

SpecSweep == InitSweep /\ [][NextSweep]_vars

\* the options a response offers: those of data.options that carry a name,
\* nothing for a failed fetch or a response without data.options
Offered(response) ==
    IF /\ response.kind = "dict"
       /\ "data" \in DOMAIN response.items
       /\ response.items["data"].kind = "dict"
       /\ "options" \in DOMAIN response.items["data"].items
       /\ response.items["data"].items["options"].kind = "items"
    THEN SelectSeq(response.items["data"].items["options"].seq,
                   LAMBDA o : o.kind = "dict" /\ Truthy(Get(o, "option_value_name", Null)))
    ELSE <<>>

RECURSIVE OfferedInOrder(_)
\* the named options of the served letters, in sweep order
OfferedInOrder(asked) ==
    IF asked = <<>> THEN <<>>
    ELSE OfferedInOrder(SubSeq(asked, 1, Len(asked) - 1))
         \o Offered(asked[Len(asked)].payload)

\* the first option of a sequence that carries the name
FirstOccurrence(options, name) ==
    options[CHOOSE i \in DOMAIN options :
                /\ options[i].items["option_value_name"] = name
                /\ \A j \in 1..(i - 1) : options[j].items["option_value_name"] # name]

\* what C24 says of brands_data: one entry per offered brand name, built from
\* the first option of that name in sweep order
KeepsFirstOccurrence ==
    LET offered == OfferedInOrder(sweep.served)
        names == {offered[i].items["option_value_name"] : i \in DOMAIN offered}
    IN  /\ {sweep.brands_data[i].items["option_value_name"] : i \in DOMAIN sweep.brands_data} = names
        /\ \A i, j \in DOMAIN sweep.brands_data :
             sweep.brands_data[i].items["option_value_name"]
               = sweep.brands_data[j].items["option_value_name"] => i = j
        /\ \A i \in DOMAIN sweep.brands_data :
             sweep.brands_data[i]
               = BrandEntry(FirstOccurrence(offered, sweep.brands_data[i].items["option_value_name"]))

\* C24: search_brands_for_category asks the letters one by one in their fixed
\* order; no response stops the sweep, so it returns only after the last
\* letter; brands_data holds one entry per offered brand name, built from the
\* first option of that name in sweep order, and a failed fetch or a response
\* without data.options adds nothing.
C24_SweepKeepsFirstOccurrence ==
    /\ \A i \in DOMAIN sweep.served : sweep.served[i].letter = i
    /\ sweep.pc # "raised"
    /\ sweep.pc = "returned" => Len(sweep.served) = MaxLetters
    /\ sweep.pc \in {"sweep", "returned"} => KeepsFirstOccurrence

\* C25: nothing that happens in one category ends the run: when start has
\* returned, every category of the list was taken up, whatever the earlier
\* categories came to (an empty collected id set included).
C25_EveryCategoryProcessed ==
    start.pc = "returned" => start.reached = DOMAIN start.categories

\* C26: a category whose URL does not match /ua/<slug>/c<digits>/ is skipped with
\* an error log: nothing is collected and nothing is saved for it, now or later,
\* and the step that skips it goes on to the category after it (start ends only
\* when it was the last).
C26_NonMatchingUrlSkipped ==
    [][ /\ (start.pc = "category" /\ Matches(start.categories[start.i]) = {}) =>
             /\ start'.skipped = start.skipped \cup {start.i}
             /\ start'.fetched = start.fetched
             /\ start'.saves = start.saves
             /\ IF start.i < Len(start.categories)
                THEN start'.pc = "category" /\ start'.i = start.i + 1
                ELSE start'.pc = "returned"
        /\ \A j \in DOMAIN start'.categories :
             Matches(start'.categories[j]) = {} =>
               /\ j \notin start'.fetched
               /\ \A k \in DOMAIN start'.saves : start'.saves[k].category # j ]_vars

C26_Witness ==
    /\ start.pc = "returned"
    /\ Len(start.categories) = 2
    /\ Matches(start.categories[1]) = {}
    /\ start.skipped = {1}
    /\ start.fetched = {2}
    /\ Len(start.saves) = 1
    /\ start.saves[1].category = 2
    /\ start.saves[1].artifacts # {}

\* C28 as stated: a save of a non-empty record list writes both files when
\* save_data is 'both', the one named when it is 'csv' or 'json', and for any
\* other value writes no file and logs the warning; it does not raise.
C28_SaveDataSelectsArtifacts ==
    \A k \in DOMAIN start.saves :
      start.saves[k].data =>
        /\ settings.save_data = "both" =>
             start.saves[k].artifacts = {"csv", "json"} /\ ~start.saves[k].warning
        /\ settings.save_data \in {"csv", "json"} =>
             start.saves[k].artifacts = {settings.save_data} /\ ~start.saves[k].warning
        /\ settings.save_data \notin {"both", "csv", "json"} =>
             start.saves[k].artifacts = {} /\ start.saves[k].warning
        /\ start.saves[k].category \notin start.caught

\* C28 amended: the value is compared in lower case: a save of a non-empty record
\* list writes both files when the lowered save_data is 'both', the one named
\* when it is 'csv' or 'json', and for any other value writes no file and logs
\* the warning; it does not raise.
C28_LoweredSaveDataSelectsArtifacts ==
    \A k \in DOMAIN start.saves :
      start.saves[k].data =>
        /\ Lower(settings.save_data) = "both" =>
             start.saves[k].artifacts = {"csv", "json"} /\ ~start.saves[k].warning
        /\ Lower(settings.save_data) \in {"csv", "json"} =>
             start.saves[k].artifacts = {Lower(settings.save_data)} /\ ~start.saves[k].warning
        /\ Lower(settings.save_data) \notin {"both", "csv", "json"} =>
             start.saves[k].artifacts = {} /\ start.saves[k].warning
        /\ start.saves[k].category \notin start.caught

C28_Witness ==
    /\ start.pc = "returned"
    /\ settings.save_data = "CSV"
    /\ Len(start.saves) = 2
    /\ start.saves[1].data
    /\ start.saves[1].artifacts = {"csv"}
    /\ ~start.saves[2].data
    /\ start.saves[2].artifacts = {}

\* some thread of collect_product_ids_with_workers can take a step: the
\* collecting thread is before the pool or has a finished future to take or none
\* left to wait for, a pool thread is free for a queued task, or a task is
\* between two fetches
Runnable ==
    \/ main_pc \in {"discover", "create", "submit"}
    \/ main_pc = "collect" /\ (Finished \ collected # {} \/ collected = 1..Len(futures))
    \/ work_queue # <<>> /\ Cardinality(Running) < max_workers
    \/ \E i \in Running : futures[i].walk.pc \in {"first", "pages"}

\* Runnable is the enabling condition of Next
RunnableIsEnabled == Runnable <=> ENABLED Next

\* collect_product_ids_with_workers when no thread that can take a step waits
\* for ever: weak fairness of Next, WF_vars(Next), with the enabling condition
\* of Next written out
SpecFair == Spec /\ ([]<>(~Runnable) \/ []<><<Next>>_vars)

\* every discovered brand has one future, in order, once submission is over
SubmittedOnce ==
    /\ Len(futures) <= Len(brands_data)
    /\ \A i \in DOMAIN futures : futures[i].brand = brands_data[i]
    /\ main_pc \in {"collect", "done"} /\ brands_data # <<>> =>
         Len(futures) = Len(brands_data)

C32_FallbackIffNoFilterYielded ==
    (filters # <<>> /\ ~default_parse /\ BrandEnded) =>
        IF \E k \in DOMAIN brand.yielded : brand.yielded[k]
        THEN DefaultWalksCalled = <<>>
        ELSE DefaultWalksCalled = OneDefaultTraversal

(***************************************************************************)
(* One category from end to end: start calls collect_product_ids, which    *)
(* sweeps the letters for the brands (search_brands_for_category), runs    *)
(* one task per brand on the pool and returns the merged set; then the     *)
(* batch phase and save_results.  The pool of the brand tasks is kept as   *)
(* it was at the return, so that a task still running then would show.     *)
(* brands_data of the pool is the positions of the brands the sweep found. *)
(***************************************************************************)
\* rozetka_app.py 309, 217-223 and 106-108: start calls collect_product_ids,
\* which calls collect_product_ids_with_workers, which starts the sweep
CallCollectProductIds ==
    /\ start.pc = "collect"
    /\ main_pc = "idle"
    /\ sweep.pc = "idle"
    /\ start' = [start EXCEPT !.pc = "in_collect", !.fetched = @ \cup {start.i}]
    /\ main_pc' = "discover"
    /\ max_workers' = settings.max_workers
    /\ sweep' = [pc |-> "sweep", letter |-> 1, brands_data |-> <<>>, served |-> <<>>]
    /\ UNCHANGED <<brands_data, remote, workers, futures, work_queue, collected,
                   all_product_ids, completed_count, failed_brands, collect_result>>
    /\ UNCHANGED <<settings, reqVars, walkVars, batchVars, brandVars>>

\* lines 108-115: search_brands_for_category is over.  Its exception leaves
\* collect_product_ids and is caught in start (lines 334-335); without brands
\* the empty set is returned; else the brands go to the pool
SearchBrandsEnds ==
    /\ main_pc = "discover"
    /\ sweep.pc \in {"returned", "raised"}
    /\ sweep' = [pc |-> "idle", letter |-> 0, brands_data |-> <<>>, served |-> <<>>]
    /\ IF sweep.pc = "raised"
       THEN /\ start' = NextCategory([start EXCEPT !.caught = @ \cup {start.i}])
            /\ main_pc' = "idle"
            /\ max_workers' = 0
            /\ UNCHANGED <<brands_data, remote, collect_result>>
       ELSE /\ brands_data' = [i \in 1..Len(sweep.brands_data) |-> i]
            /\ remote' \in [1..Len(sweep.brands_data) -> BrandCatalogs]
            /\ IF sweep.brands_data = <<>>
               THEN main_pc' = "done" /\ collect_result' = PySet({})
               ELSE main_pc' = "create" /\ UNCHANGED collect_result
            /\ UNCHANGED <<start, max_workers>>
    /\ UNCHANGED <<workers, futures, work_queue, collected, all_product_ids,
                   completed_count, failed_brands>>
    /\ UNCHANGED <<settings, reqVars, walkVars, batchVars, brandVars>>

\* start goes on as soon as one brand task was collected: what start would do
\* if collect_product_ids_with_workers returned inside its as_completed loop
CollectProductIdsReturnsEarly ==
    /\ start.pc = "in_collect"
    /\ main_pc \in {"collect", "done"}
    /\ all_product_ids # {}
    /\ start' = [start EXCEPT !.product_ids = all_product_ids, !.pc = "batches"]
    /\ UNCHANGED <<settings, reqVars, walkVars, schedVars, batchVars, brandVars, sweep>>

\* lines 309-314: collect_product_ids returned; an empty set ends start
CollectProductIdsReturns ==
    /\ start.pc = "in_collect"
    /\ main_pc = "done"
    /\ start' = [start EXCEPT !.product_ids = collect_result.ids,
                              !.pc = IF collect_result.ids = {} THEN "returned"
                                     ELSE "batches"]
    /\ UNCHANGED <<settings, reqVars, walkVars, schedVars, batchVars, brandVars, sweep>>

InitCategory ==
    /\ settings \in [batch_size : 1..MaxBatchSize, max_workers : 1..MaxWorkers,
                     save_data : SaveDataValues]
    /\ \E url \in Urls : start = [NoStart EXCEPT !.pc = "read", !.categories = <<url>>]
    /\ ReqIdle
    /\ WalkIdle
    /\ SchedIdle
    /\ BatchIdle
    /\ BrandIdle
    /\ SweepIdle

NextCategoryRun ==
    \/ ReadCategories
    \/ CategoryNameAndIdStep
    \/ CallCollectProductIds
    \/ SweepLetter
    \/ SearchBrandsEnds
    \/ CreateWorkers
    \/ Submit
    \/ StartTask
    \/ TaskFetchFirst
    \/ TaskFetchNext
    \/ Collect
    \/ ReturnIds
    \/ CollectProductIdsReturns
    \/ CallProcessBatches
    \/ SplitBatches
    \/ CreateBatchWorkers
    \/ SubmitBatch
    \/ StartBatch
    \/ FinishBatch
    \/ CollectBatch
    \/ ReturnData
    \/ SaveResults

SpecCategory == InitCategory /\ [][NextCategoryRun]_vars

\* every brand the sweep found has a task, and every task is over
BrandTasksCompleted ==
    /\ Len(futures) = Len(brands_data)
    /\ \A i \in DOMAIN futures : futures[i].state = "finished"

\* every batch has a task, and every task is over
BatchTasksCompleted ==
    /\ Len(future_to_batch) = Len(batches)
    /\ \A i \in DOMAIN future_to_batch : future_to_batch[i].state = "finished"

\* C31: within one category the phases follow one another: while the brands
\* are being discovered no brand task exists, let alone runs; a batch task is
\* taken up by a pool thread (its details request issued) only when every brand
\* task of the category is over; and save_results is called only when every
\* batch task is over.
C31_PhasesOrdered ==
    /\ [](/\ (main_pc = "discover" \/ sweep.pc # "idle") =>
                futures = <<>> /\ work_queue = <<>>
          /\ (\E i \in DOMAIN future_to_batch : future_to_batch[i].state # "pending") =>
                main_pc = "done" /\ BrandTasksCompleted)
    /\ [][Len(start'.saves) > Len(start.saves) =>
             batch_pc = "done" /\ BatchTasksCompleted /\ BrandTasksCompleted]_vars

C31_Witness ==
    /\ start.pc = "returned"
    /\ Len(start.saves) = 1
    /\ start.saves[1].data
    /\ Len(futures) = 2
    /\ futures[1].outcome = Exception
    /\ futures[2].outcome = PySet(Ids)
    /\ start.fetched = {1}
====
